---- MODULE Spec2Model ----
(***************************************************************************)
(* Model of the elliptic-curve discrete-logarithm attack toolkit:          *)
(* the dispatcher do_attacks (ecc_attacks.py) and the four attacks of      *)
(* libs/attacks (MOV, Smart, Pohlig-Hellman with Pollard-lambda fallback,  *)
(* singular curve), over small prime fields.                               *)
(*                                                                         *)
(* Points are triples <<x, y, z>>: z = 1 for an affine point, and          *)
(* <<0, 1, 0>> is the point at infinity, as Sage prints them (x : y : z).  *)
(* A missing y-coordinate (Python None) is the value None.                 *)
(***************************************************************************)
EXTENDS Integers, Sequences, FiniteSets, TLC

\* ------------------------------------------------------------------ bounds
\* Largest number of random points mov_attack samples in the model.
MaxTries == 2
\* Largest multiple of n = order(G) a sampled point's order is drawn from.
MaxCofactor == 1

\* Prime moduli of the model.
Primes == {5, 7}

None == -1
\* Marks a division by zero inside a computed value.
DivZero == -2

\* --------------------------------------------------- modular field layer
\* Inverse of a unit modulo p (the field division of Sage's GF(p)).
Inv(x, p) == CHOOSE y \in 1..(p - 1) : (x * y) % p = 1

\* IntegerMod.sqrt(all=True) of a square: every square root in GF(p).
SqrtAll(v, p) == {y \in 0..(p - 1) : (y * y) % p = v % p}

RECURSIVE GCD(_, _)
GCD(x, y) == IF y = 0 THEN x ELSE GCD(y, x % y)

\* Python int.bit_length / Sage Integer.nbits.
RECURSIVE nbits(_)
nbits(x) == IF x = 0 THEN 0 ELSE 1 + nbits(x \div 2)

RECURSIVE Pow(_, _)
Pow(x, e) == IF e = 0 THEN 1 ELSE x * Pow(x, e - 1)

RECURSIVE prod(_)
prod(s) == IF Len(s) = 0 THEN 1 ELSE Head(s) * prod(Tail(s))

IsPrime(q) == q > 1 /\ \A d \in 2..(q - 1) : q % d # 0

RECURSIVE Valuation(_, _)
Valuation(q, n) == IF n % q # 0 THEN 0 ELSE 1 + Valuation(q, n \div q)

RECURSIVE SortedSeq(_)
SortedSeq(S) ==
    IF S = {} THEN <<>>
    ELSE LET m == CHOOSE x \in S : \A y \in S : x <= y
         IN <<m>> \o SortedSeq(S \ {m})

\* Integer.factor() followed by sort(): the prime powers <<p, e>> of n,
\* ascending by prime.
Factor(n) ==
    LET ps == SortedSeq({q \in 2..n : IsPrime(q) /\ n % q = 0})
    IN [i \in 1..Len(ps) |-> <<ps[i], Valuation(ps[i], n)>>]

\* CRT_list(values, moduli) for pairwise coprime moduli: the residue in
\* 0..prod(moduli)-1.
CRT_list(vals, ms) ==
    CHOOSE x \in 0..(prod(ms) - 1) :
        \A i \in 1..Len(ms) : x % ms[i] = vals[i] % ms[i]

\* ------------------------------------------------------------ curve model
\* A curve is [p, a2, a4, a6]: y^2 = x^3 + a2*x^2 + a4*x + a6 over GF(p).
Curve(p, a2, a4, a6) == [p |-> p, a2 |-> a2, a4 |-> a4, a6 |-> a6]

\* The cubic f = x^3 + a*x^2 + b*x + c evaluated at x.
f(cv, x) == (x * x * x + cv.a2 * x * x + cv.a4 * x + cv.a6) % cv.p

Inf == <<0, 1, 0>>

\* Point.on_curve / curve_contains_point for a1 = a3 = 0.
OnCurve(cv, x, y) == (y * y - f(cv, x)) % cv.p = 0

AffinePoints(cv) ==
    {pt \in (0..(cv.p - 1)) \X (0..(cv.p - 1)) \X {1} : OnCurve(cv, pt[1], pt[2])}

\* f.discriminant() of x^3 + a*x + b in do_attacks.
Discriminant(cv) ==
    (-4 * cv.a4 * cv.a4 * cv.a4 - 27 * cv.a6 * cv.a6) % cv.p

\* Chord-and-tangent addition (Sage's point addition).
Add(cv, A, B) ==
    IF A = Inf THEN B
    ELSE IF B = Inf THEN A
    ELSE IF A[1] = B[1] /\ (A[2] + B[2]) % cv.p = 0 THEN Inf
    ELSE LET p == cv.p
             lam == IF A[1] = B[1]
                    THEN ((3 * A[1] * A[1] + 2 * cv.a2 * A[1] + cv.a4)
                          * Inv(2 * A[2], p)) % p
                    ELSE ((B[2] - A[2]) * Inv(B[1] - A[1], p)) % p
             x3 == (lam * lam - cv.a2 - A[1] - B[1]) % p
             y3 == (lam * (A[1] - x3) - A[2]) % p
         IN <<x3, y3, 1>>

Neg(cv, A) == IF A = Inf THEN Inf ELSE <<A[1], (-A[2]) % cv.p, 1>>

\* n * A for n >= 0.
RECURSIVE Mul(_, _, _)
Mul(cv, n, A) == IF n = 0 THEN Inf ELSE Add(cv, Mul(cv, n - 1, A), A)

\* A.order(): the least k >= 1 with k*A = O.
RECURSIVE OrderFrom(_, _, _, _)
OrderFrom(cv, A, acc, k) ==
    IF acc = Inf THEN k ELSE OrderFrom(cv, A, Add(cv, acc, A), k + 1)

Order(cv, A) == OrderFrom(cv, A, A, 1)

\* E.order(): the number of points of E(GF(p)).
CurveOrder(cv) ==
    Cardinality(UNION {{<<x, y>> : y \in SqrtAll(f(cv, x), cv.p)} :
                       x \in 0..(cv.p - 1)}) + 1

\* Pp.log(Gp): the discrete logarithm of Q in base A, or None when Q is no
\* multiple of A (Sage raises ValueError).
DLog(cv, Q, A) ==
    LET S == {x \in 0..(Order(cv, A) - 1) : Mul(cv, x, A) = Q}
    IN IF S = {} THEN None ELSE CHOOSE x \in S : TRUE


\* discrete_log_lambda(a, base, (lb, ub), operation="+"): the logarithms of
\* Q in base A inside the searched interval lb..ub.
LambdaLogs(cv, Q, A, lb, ub) == {x \in lb..ub : Mul(cv, x, A) = Q}

\* ------------------------------------------- quadratic extension of GF(p)
\* Elements of GF(p)[T]/(T^2 - c) are pairs <<x0, x1>> = x0 + x1*T; the
\* elements of GF(p) are the pairs <<x0, 0>>.
EEmb(x, p) == <<x % p, 0>>
EAdd(x, y, p) == <<(x[1] + y[1]) % p, (x[2] + y[2]) % p>>
ESub(x, y, p) == <<(x[1] - y[1]) % p, (x[2] - y[2]) % p>>
EMul(x, y, c, p) ==
    <<(x[1] * y[1] + c * x[2] * y[2]) % p, (x[1] * y[2] + x[2] * y[1]) % p>>
ENorm(x, c, p) == (x[1] * x[1] - c * x[2] * x[2]) % p
EInv(x, c, p) ==
    LET ni == Inv(ENorm(x, c, p), p)
    IN <<(x[1] * ni) % p, (-x[2] * ni) % p>>
EDiv(x, y, c, p) == EMul(x, EInv(y, c, p), c, p)

RECURSIVE EPow(_, _, _, _)
EPow(x, e, c, p) == IF e = 0 THEN <<1, 0>> ELSE EMul(EPow(x, e - 1, c, p), x, c, p)

\* v.log(u) in the multiplicative group: the exponent in 0..ord(u)-1, or
\* None when v is no power of u (Sage raises ValueError).
ELog(v, u, c, p) ==
    LET S == {x \in 0..(p * p - 2) : EPow(u, x, c, p) = v}
    IN IF S = {} THEN None ELSE CHOOSE x \in S : \A y \in S : x <= y

\* --------------------------------------------------------------- MOV gate
MAX_DEGREE == 20

RECURSIVE PowMod(_, _, _)
PowMod(q, k, n) ==
    IF k = 0 THEN 1 % n
    ELSE IF k % 2 = 0 THEN PowMod((q * q) % n, k \div 2, n)
    ELSE (q * PowMod((q * q) % n, k \div 2, n)) % n

\* The loop of embedding_degree: k is raised while n does not divide
\* q^k - 1 (the power is reduced modulo n, Python integers being unbounded).
RECURSIVE EmbeddingLoop(_, _, _, _)
EmbeddingLoop(q, n, k, max_k) ==
    IF (PowMod(q, k, n) - 1) % n = 0 THEN k
    ELSE IF k + 1 > max_k THEN -1
    ELSE EmbeddingLoop(q, n, k + 1, max_k)

\* The degree taken from n | q^k, the "- 1" left out.
embedding_degree_NoMinusOne(cv, max_k) ==
    LET S == {j \in 1..max_k : PowMod(cv.p, j, CurveOrder(cv)) = 0}
    IN IF S = {} THEN -1 ELSE CHOOSE j \in S : \A i \in S : j <= i

embedding_degree(cv, max_k) == EmbeddingLoop(cv.p, CurveOrder(cv), 1, max_k)

\* The gate without its test for an absent degree (k = -1).
MovGateFails_NoAbsent(k) == k > 6

\* `if k < 0 or k > 6` of mov_attack.
MovGateFails(k) == k < 0 \/ k > 6

\* The gate testing for a supersingular order p + 1 instead of p.
SmartGateFails_Supersingular(curve_order, p) == curve_order # p + 1

\* `if curve_order != p` of smart_attack.
SmartGateFails(curve_order, p) == curve_order # p

\* ------------------------------------------------------------- exceptions
\* Python class of each failure kind raised in the attacks.
ExcClass(kind) ==
    CASE kind = "ZeroDivisionError" -> "ZeroDivisionError"
      [] kind = "KeyboardInterrupt" -> "KeyboardInterrupt"
      [] OTHER -> "ValueError"

\* `except ValueError` of do_attacks.
Caught(kind) == ExcClass(kind) = "ValueError"


\* ------------------------------------------------------------------ state
VARIABLES
    args,       \* the arguments of the entry function of this run
    pc,         \* position of the run
    out,        \* "running", "returned", "none" (do_attacks returned None), "raised"
    exc,        \* the error that left the entry function, "" if none
    res,        \* the returned result: [n |-> set of candidates, order |-> modulus]
    started,    \* the attacks started so far, in order
    failures,   \* <<attack, failure kind>> of every attack that raised, in order
    steps,      \* the attack steps carried out so far
    G, P,       \* the points handed to the attacks
    k,          \* mov_attack: embedding degree
    mov,        \* mov_attack: n, m, d, order of B, number of samples
    curve_order,\* smart_attack: #E(Fp)
    ord_G,      \* pohlig_hellman_attack: n = G.order()
    factors, fi,\* pohlig_hellman_attack: factor list and index of the next factor
    mods, logs, \* pohlig_hellman_attack: processed prime powers and their logs
    crt,        \* pohlig_hellman_attack: CRT of the logs found so far
    fallback,   \* pohlig_hellman_attack: fallback taken after the loop
    gys, pys,   \* singular_attack: candidate y-coordinates
    sing        \* singular_attack: chosen root and its multiplicity

vars == <<args, pc, out, exc, res, started, failures, steps, G, P, k, mov,
          curve_order, ord_G, factors, fi, mods, logs, crt, fallback, gys, pys, sing>>

movVars == <<k, mov>>
phVars == <<ord_G, factors, fi, mods, logs, crt, fallback>>
singVars == <<gys, pys, sing>>

NoRes == [n |-> {}, order |-> None]

\* The locals of the sampling loop of mov_attack before the loop (and after
\* the attack is left, when they are gone).
NoSample == [n |-> 0, m |-> 0, d |-> 0, ordB |-> 0, tries |-> 0]

\* The curve of the run.
E == Curve(args.p, args.a2, args.a4, args.a6)

\* A point argument: a point of the curve, or an x-coordinate without y.
PointSpecs(cv) ==
    {<<pt[1], pt[2]>> : pt \in AffinePoints(cv)} \cup
    {<<x, None>> : x \in 0..(cv.p - 1)}

Args(entry, p, a2, a4, a6, g, q, mb, mxn, mnn, ap) ==
    [entry |-> entry, p |-> p, a2 |-> a2, a4 |-> a4, a6 |-> a6,
     gx |-> g[1], gy |-> g[2], px |-> q[1], py |-> q[2],
     max_bits |-> mb, max_n_bits |-> mxn, min_n_bits |-> mnn,
     allow_partial |-> ap]

\* <<max_bits, max_n_bits, min_n_bits>> of the command line: parse_args
\* accepts max_n_bits = 0, or 0 < min_n_bits <= max_n_bits.
DispatchParams == {<<48, 0, 1>>, <<2, 3, 1>>}

\* <<size_limit, max_n_bits, min_n_bits, allow_partial>> of a direct call.
DirectParams ==
    {<<48, 0, 1, FALSE>>, <<2, 0, 1, TRUE>>, <<2, 0, 1, FALSE>>,
     <<2, 3, 1, TRUE>>, <<2, 3, 3, FALSE>>, <<1, 0, 1, TRUE>>, <<1, 3, 1, FALSE>>}

\* Moduli of the direct calls of singular_attack.
SingularPrimes == {5}

\* do_attacks(args) of the command line: y^2 = x^3 + a*x + b, points checked
\* to be on the curve when fully given.
InitDispatch ==
    \E p \in Primes : \E a, b \in 0..(p - 1) :
    \E g, q \in PointSpecs(Curve(p, 0, a, b)) :
    \E pr \in DispatchParams :
        /\ args = Args("do_attacks", p, 0, a, b, g, q, pr[1], pr[2], pr[3], FALSE)
        /\ pc = "do_attacks"

\* pohlig_hellman_attack(G, P, size_limit, max_n_bits, min_n_bits,
\* allow_partial) called on two points of a non-singular curve.
InitPohligHellman ==
    \E p \in Primes : \E a, b \in 0..(p - 1) :
    \E g, q \in AffinePoints(Curve(p, 0, a, b)) :
    \E pr \in DirectParams :
        /\ Discriminant(Curve(p, 0, a, b)) # 0
        /\ args = Args("pohlig_hellman_attack", p, 0, a, b, g, q, pr[1], pr[2], pr[3], pr[4])
        /\ pc = "try_ph"

\* singular_attack(a_invs, F, gx, gy, px, py) called on any cubic with
\* a1 = a3 = 0.
InitSingular ==
    \E p \in SingularPrimes : \E a2, a4, a6 \in 0..(p - 1) :
    \E g, q \in PointSpecs(Curve(p, a2, a4, a6)) :
        /\ args = Args("singular_attack", p, a2, a4, a6, g, q, 48, 0, 1, FALSE)
        /\ pc = "try_singular"

\* The locals of an entry function before its first statement.
InitLocals ==
    /\ out = "running"
    /\ exc = ""
    /\ res = NoRes
    /\ started = <<>>
    /\ failures = <<>>
    /\ steps = {}
    /\ G = IF args.gy = None THEN Inf ELSE <<args.gx, args.gy, 1>>
    /\ P = IF args.py = None THEN Inf ELSE <<args.px, args.py, 1>>
    /\ k = 0
    /\ mov = NoSample
    /\ curve_order = 0
    /\ ord_G = 0
    /\ factors = <<>>
    /\ fi = 1
    /\ mods = <<>>
    /\ logs = <<>>
    /\ crt = 0
    /\ fallback = "none"
    /\ gys = {}
    /\ pys = {}
    /\ sing = [root |-> None, mult |-> 0]

Init ==
    /\ (InitDispatch \/ InitPohligHellman \/ InitSingular)
    /\ InitLocals

\* ------------------------------------------------- leaving an attack
\* The exception leaves the entry function.
Raise(kind) ==
    /\ pc' = "done"
    /\ out' = "raised"
    /\ exc' = kind

\* The dispatcher going from a failed MOV attack straight to Pohlig-Hellman.
NextAttack_SkipSmart(att) ==
    CASE att = "mov" -> "try_ph"
      [] att = "smart" -> "try_ph"
      [] OTHER -> "done"

\* The position do_attacks continues at after the handler of a failed attack.
NextAttack(att) ==
    CASE att = "mov" -> "try_smart"
      [] att = "smart" -> "try_ph"
      [] OTHER -> "done"

\* An attack raises `kind`. Inside do_attacks the handler `except ValueError`
\* of that attack catches it and the dispatcher goes on (after the singular
\* attack and after Pohlig-Hellman it returns None); any other class, and any
\* error of a direct call, leaves the entry function.
AttackFails(att, kind) ==
    /\ failures' = Append(failures, <<att, kind>>)
    /\ res' = res
    /\ IF args.entry = "do_attacks" /\ Caught(kind)
       THEN /\ exc' = exc
            /\ pc' = NextAttack(att)
            /\ out' = IF NextAttack(att) = "done" THEN "none" ELSE out
       ELSE Raise(kind)

\* An attack returns `value`; do_attacks returns it at once.
AttackReturns(value) ==
    /\ res' = value
    /\ pc' = "done"
    /\ out' = "returned"
    /\ exc' = exc
    /\ failures' = failures

Result(n, order) == [n |-> n, order |-> order]

Last(s) == s[Len(s)]

\* ------------------------------------------------------------- do_attacks
\* E.lift_x(x): the points Sage can return for an x-coordinate.
LiftX(cv, x, y) ==
    IF y # None THEN {<<x, y, 1>>}
    ELSE {<<x, yy, 1>> : yy \in SqrtAll(f(cv, x), cv.p)}

\* do_attacks up to the first attack: the discriminant test, and on a
\* non-singular curve the construction of G and P (a missing y is lifted to
\* one point; lift_x raises ValueError outside every handler when x has none).
DoAttacks ==
    /\ pc = "do_attacks"
    /\ UNCHANGED <<args, started, failures, res, steps, movVars, curve_order,
                   phVars, singVars>>
    /\ IF Discriminant(E) = 0
       THEN /\ pc' = "try_singular"
            /\ UNCHANGED <<out, exc, G, P>>
       ELSE IF LiftX(E, args.gx, args.gy) = {} \/ LiftX(E, args.px, args.py) = {}
       THEN /\ Raise("LiftXError")
            /\ UNCHANGED <<G, P>>
       ELSE /\ G' \in LiftX(E, args.gx, args.gy)
            /\ P' \in LiftX(E, args.px, args.py)
            /\ pc' = "try_mov"
            /\ UNCHANGED <<out, exc>>

\* ------------------------------------------------------------- mov_attack
\* mov_attack up to the gate on the embedding degree.
MovStart ==
    /\ pc = "try_mov"
    /\ started' = Append(started, "mov")
    /\ k' = embedding_degree(E, MAX_DEGREE)
    /\ UNCHANGED <<args, steps, G, P, mov, curve_order, phVars, singVars>>
    /\ IF MovGateFails(k')
       THEN AttackFails("mov", "NotSupersingular")
       ELSE /\ pc' = "mov_ext"
            /\ UNCHANGED <<out, exc, res, failures>>

\* Construction of Ek over GF(q^k) and n = G.order().
MovExtend ==
    /\ pc = "mov_ext"
    /\ steps' = steps \cup {"mov_extension"}
    /\ mov' = [mov EXCEPT !.n = Order(E, G)]
    /\ pc' = "mov_sample"
    /\ UNCHANGED <<args, out, exc, res, started, failures, G, P, k,
                   curve_order, phVars, singVars>>

\* Random points of Ek among which none has an order that is a multiple of n.
SampleOrders_NoMultiple(n) == {m \in 1..(MaxCofactor * n) : m % n # 0}

\* Orders a random point of Ek can have (Ek contains G, of order n).
SampleOrders(n) == 1..(MaxCofactor * n)

\* B = R itself: the sampled point is not scaled.
CyclicOrder_Unscaled(c, m) == m

\* The order of c*R in the cyclic group generated by R of order m.
CyclicOrder(c, m) == m \div GCD(c % m, m)

\* One iteration of the sampling loop: R = Ek.random_point(), m = R.order(),
\* d = gcd(m, n), B = R * (m // d); the loop is left when B.order() == n.
MovSample ==
    /\ pc = "mov_sample"
    /\ mov.tries < MaxTries
    /\ steps' = steps \cup {"mov_sample"}
    /\ \E m \in SampleOrders(mov.n) :
         LET d == GCD(m, mov.n)
             ordB == CyclicOrder(m \div d, m)
         IN /\ mov' = [mov EXCEPT !.m = m, !.d = d, !.ordB = ordB,
                                  !.tries = mov.tries + 1]
            /\ pc' = IF ordB = mov.n THEN "mov_pair" ELSE "mov_sample"
    /\ UNCHANGED <<args, out, exc, res, started, failures, G, P, k,
                   curve_order, phVars, singVars>>

\* mov_attack without its verification.
MovVerifyFails_Dropped(n_p) == FALSE

\* `if n_p * G != P` of mov_attack.
MovVerifyFails(n_p) == Mul(E, n_p, G) # P

\* The Weil pairings u, v against B, n_p = v.log(u) (an exponent below n),
\* and the verification n_p * G == P.
MovPairing ==
    /\ pc = "mov_pair"
    /\ steps' = steps \cup {"mov_pairing"}
    /\ mov' = NoSample
    /\ UNCHANGED <<args, started, G, P, k, curve_order, phVars, singVars>>
    /\ \E n_p \in 0..(mov.n - 1) :
         IF MovVerifyFails(n_p)
         THEN AttackFails("mov", "VerificationFailed")
         ELSE AttackReturns(Result({n_p}, None))

\* ----------------------------------------------------------- smart_attack
\* smart_attack up to the gate on the curve order.
SmartStart ==
    /\ pc = "try_smart"
    /\ started' = Append(started, "smart")
    /\ curve_order' = CurveOrder(E)
    /\ UNCHANGED <<args, steps, G, P, movVars, phVars, singVars>>
    /\ IF SmartGateFails(curve_order', args.p)
       THEN AttackFails("smart", "NotAnomalous")
       ELSE /\ pc' = "smart_lift"
            /\ UNCHANGED <<out, exc, res, failures>>

\* Eqp: the curve lifted to Qp with random multiples of p added.
SmartLiftCurve ==
    /\ pc = "smart_lift"
    /\ steps' = steps \cup {"smart_lift_curve"}
    /\ pc' = "smart_hensel"
    /\ UNCHANGED <<args, out, exc, res, started, failures, G, P, movVars,
                   curve_order, phVars, singVars>>

\* hensel_lift: a point lifts when y^2 = f(x) has a simple root at y, that
\* is when 2*y is a unit; otherwise no lift need reduce to it.
HenselLifts(pt) == (2 * pt[2]) % args.p # 0

SmartHensel ==
    /\ pc = "smart_hensel"
    /\ steps' = steps \cup {"smart_hensel"}
    /\ UNCHANGED <<args, started, G, P, movVars, curve_order, phVars, singVars>>
    /\ IF HenselLifts(G) /\ HenselLifts(P)
       THEN /\ pc' = "smart_compute"
            /\ UNCHANGED <<out, exc, res, failures>>
       ELSE AttackFails("smart", "HenselLiftFailed")

\* `if n * G != P` of smart_attack.
SmartVerifyFails(n) == Mul(E, n, G) # P

\* n = Fp((Pqp_x / Pqp_y) / (Gqp_x / Gqp_y)), a residue mod p that depends
\* on the random lift, and the verification n * G == P.
SmartCompute ==
    /\ pc = "smart_compute"
    /\ steps' = steps \cup {"smart_compute"}
    /\ UNCHANGED <<args, started, G, P, movVars, curve_order, phVars, singVars>>
    /\ \E n \in 0..(args.p - 1) :
         IF SmartVerifyFails(n)
         THEN AttackFails("smart", "VerificationFailed")
         ELSE AttackReturns(Result({n}, None))


\* -------------------------------------------------- pohlig_hellman_attack
\* pohlig_hellman_attack up to the factor loop: n = G.order() is factored
\* and the factors sorted.
PhStart ==
    /\ pc = "try_ph"
    /\ started' = Append(started, "ph")
    /\ ord_G' = Order(E, G)
    /\ factors' = Factor(ord_G')
    /\ mods' = <<>>
    /\ logs' = <<>>
    /\ crt' = 0
    /\ fi' = 1
    /\ pc' = "ph_loop"
    /\ UNCHANGED <<args, out, exc, res, failures, steps, G, P, movVars,
                   curve_order, fallback, singVars>>

\* The size test refusing a prime of exactly size_limit bits.
TooLarge_Inclusive(p) == nbits(p) >= args.max_bits

\* `if nbits > size_limit` of the factor loop.
TooLarge(p) == nbits(p) > args.max_bits

\* The factor loop without its early exit.
PhFound_Never(c) == FALSE

\* `if crt * G == P` of the factor loop.
PhFound(c) == Mul(E, c, G) = P

\* One iteration of the factor loop: a factor over the size limit is
\* skipped; otherwise the prime power joins mods, the log in the subgroup
\* joins logs (Pp.log(Gp) raises ValueError when there is none), the CRT is
\* recomputed and the attack returns when crt * G == P.
PhFactor ==
    /\ pc = "ph_loop"
    /\ fi <= Len(factors)
    /\ UNCHANGED <<args, started, G, P, movVars, curve_order, ord_G, factors,
                   fallback, singVars>>
    /\ LET p == factors[fi][1]
           e == factors[fi][2]
           fact == Pow(p, e)
           n_fact == ord_G \div fact
           Gp == Mul(E, n_fact, G)
           Pp == Mul(E, n_fact, P)
           n_p == DLog(E, Pp, Gp)
       IN IF TooLarge(p)
          THEN /\ steps' = steps \cup {"ph_skip"}
               /\ fi' = fi + 1
               /\ UNCHANGED <<pc, out, exc, res, failures, mods, logs, crt>>
          ELSE IF n_p = None
          THEN /\ steps' = steps \cup {"ph_log"}
               /\ mods' = Append(mods, fact)
               /\ UNCHANGED <<fi, logs, crt>>
               /\ AttackFails("ph", "LogNotFound")
          ELSE /\ steps' = steps \cup {"ph_log"}
               /\ mods' = Append(mods, fact)
               /\ logs' = Append(logs, n_p)
               /\ crt' = CRT_list(logs', mods')
               /\ IF PhFound(crt')
                  THEN /\ AttackReturns(Result({crt'}, prod(mods')))
                       /\ fi' = fi
                  ELSE /\ fi' = fi + 1
                       /\ UNCHANGED <<pc, out, exc, res, failures>>

\* The fallbacks with allow_partial tested before max_n_bits.
FallbackChoice_PartialFirst(max_n_bits, allow_partial) ==
    IF allow_partial THEN "partial"
    ELSE IF max_n_bits > 0 THEN "lambda"
    ELSE "nosolution"

\* The fallback chosen after the factor loop.
FallbackChoice(max_n_bits, allow_partial) ==
    IF max_n_bits > 0 THEN "lambda"
    ELSE IF allow_partial THEN "partial"
    ELSE "nosolution"

lower_bound(min_n_bits, mod) ==
    IF Pow(2, min_n_bits - 1) \div mod = 0 THEN 1
    ELSE Pow(2, min_n_bits - 1) \div mod

\* The upper bound taken from max_n_bits - 1 bits.
upper_bound_Half(max_n_bits, mod) == Pow(2, max_n_bits - 1) \div mod + 1

upper_bound(max_n_bits, mod) == Pow(2, max_n_bits) \div mod + 1

\* `if n_p * G != P` after the Pollard-lambda search.
PhVerifyFails(n_p) == Mul(E, n_p, G) # P

\* After the loop: the Pollard-lambda completion when max_n_bits > 0 (the
\* randomised search returns a log of the interval, or raises ValueError: it
\* always does when the interval holds no log), else the partial CRT result
\* when allow_partial, else the failure.
PhFallback ==
    /\ pc = "ph_loop"
    /\ fi > Len(factors)
    /\ fallback' = FallbackChoice(args.max_n_bits, args.allow_partial)
    /\ UNCHANGED <<args, started, G, P, movVars, curve_order, ord_G, factors,
                   fi, mods, logs, crt, singVars>>
    /\ LET mod == prod(mods)
           GP_ == Add(E, P, Neg(E, Mul(E, crt, G)))
           G_ == Mul(E, mod, G)
           lb == lower_bound(args.min_n_bits, mod)
           ub == upper_bound(args.max_n_bits, mod)
           found == LambdaLogs(E, GP_, G_, lb, ub)
       IN IF fallback' = "lambda"
          THEN /\ steps' = steps \cup {"ph_lambda"}
               /\ \/ AttackFails("ph", "LogNotFound")
                  \/ \E log \in found :
                         LET n_p == (log * mod + crt) % ord_G
                         IN IF PhVerifyFails(n_p)
                            THEN AttackFails("ph", "VerificationFailed")
                            ELSE AttackReturns(Result({n_p}, mod))
          ELSE IF fallback' = "partial"
          THEN /\ steps' = steps \cup {"ph_partial"}
               /\ AttackReturns(Result({crt}, mod))
          ELSE /\ steps' = steps
               /\ AttackFails("ph", "NoSolution")

\* -------------------------------------------------------- singular_attack
\* Coefficients <<c0, c1, c2>> of f(x + r) = x^3 + c2*x^2 + c1*x + c0.
Shifted(cv, r) ==
    <<f(cv, r),
      (3 * r * r + 2 * cv.a2 * r + cv.a4) % cv.p,
      (3 * r + cv.a2) % cv.p>>

\* Every root counted once.
Multiplicity_Simple(cv, r) == IF f(cv, r) = 0 THEN 1 ELSE 0

\* Multiplicity of r as a root of f: the order of vanishing of f(x + r) at 0.
Multiplicity(cv, r) ==
    LET s == Shifted(cv, r)
    IN IF s[1] # 0 THEN 0
       ELSE IF s[2] # 0 THEN 1
       ELSE IF s[3] # 0 THEN 2
       ELSE 3

\* f.roots(): the roots of f in GF(p) with their multiplicities.
Roots(cv) ==
    {<<r, Multiplicity(cv, r)>> : r \in {x \in 0..(cv.p - 1) : f(cv, x) = 0}}

\* set(f(x).sqrt(all=True)) for a missing y (empty for a non-square, where
\* Sage raises NotImplementedError), {y} for a given y.
Candidates(cv, x, y) == IF y = None THEN SqrtAll(f(cv, x), cv.p) ELSE {y}

\* singular_attack up to the candidate y-coordinates (a1 = a3 = 0: the
\* curve and the points are used unchanged).
SingularStart ==
    /\ pc = "try_singular"
    /\ started' = Append(started, "singular")
    /\ gys' = Candidates(E, args.gx, args.gy)
    /\ pys' = IF gys' = {} THEN pys ELSE Candidates(E, args.px, args.py)
    /\ UNCHANGED <<args, steps, G, P, movVars, curve_order, phVars, sing>>
    /\ IF gys' = {} THEN AttackFails("singular", "NoGy")
       ELSE IF pys' = {} THEN AttackFails("singular", "NoPy")
       ELSE /\ pc' = "sing_roots"
            /\ UNCHANGED <<out, exc, res, failures>>

\* min instead of max: the roots of smallest multiplicity.
MaxRoots_Min(roots) == {r \in roots : \A q \in roots : r[2] <= q[2]}

\* max(roots, key=multiplicity): the roots of largest multiplicity.
MaxRoots(roots) == {r \in roots : \A q \in roots : q[2] <= r[2]}

\* The failure of the root classification, "" when there is none.
RootFailure(roots, mult) ==
    IF roots = {} THEN "NoRoots"
    ELSE IF mult < 2 THEN "NoMultipleRoot"
    ELSE IF mult \notin {2, 3} THEN "UnsupportedMultiplicity"
    ELSE ""

\* The roots of the cubic and the classification of the singular point.
SingularRoots ==
    /\ pc = "sing_roots"
    /\ steps' = steps \cup {"sing_roots"}
    /\ UNCHANGED <<args, started, G, P, movVars, curve_order, phVars, gys, pys>>
    /\ LET roots == Roots(E)
       IN IF roots = {}
          THEN /\ AttackFails("singular", RootFailure(roots, 0))
               /\ sing' = sing
          ELSE \E rm \in MaxRoots(roots) :
                 IF RootFailure(roots, rm[2]) # ""
                 THEN /\ AttackFails("singular", RootFailure(roots, rm[2]))
                      /\ sing' = sing
                 ELSE /\ sing' = [root |-> rm[1], mult |-> rm[2]]
                      /\ pc' = IF rm[2] = 3 THEN "sing_cusp" ELSE "sing_node"
                      /\ UNCHANGED <<out, exc, res, failures>>

\* The quotient taken the other way round: (gx_ / gy_) / (px_ / py_).
CuspLog_Swapped(p, gx_, gy_, px_, py_) ==
    IF py_ % p = 0 \/ gy_ % p = 0 \/ px_ % p = 0 THEN None
    ELSE (((gx_ * Inv(gy_, p)) % p) * Inv((px_ * Inv(py_, p)) % p, p)) % p

\* Cusp: n = (px_ / py_) / (gx_ / gy_) in GF(p), None for a division by zero.
CuspLog(p, gx_, gy_, px_, py_) ==
    IF py_ % p = 0 \/ gy_ % p = 0 \/ gx_ % p = 0 THEN None
    ELSE (((px_ * Inv(py_, p)) % p) * Inv((gx_ * Inv(gy_, p)) % p, p)) % p

\* The cusp branch: one value per pair of candidates; a division by zero
\* raises ZeroDivisionError.
SingularCusp ==
    /\ pc = "sing_cusp"
    /\ steps' = steps \cup {"sing_cusp"}
    /\ UNCHANGED <<args, started, G, P, movVars, curve_order, phVars, singVars>>
    /\ LET p == args.p
           gx_ == (args.gx - sing.root) % p
           px_ == (args.px - sing.root) % p
           ns == {CuspLog(p, gx_, yy[1], px_, yy[2]) : yy \in gys \X pys}
       IN IF None \in ns
          THEN AttackFails("singular", "ZeroDivisionError")
          ELSE AttackReturns(Result(ns, None))

\* Node: u = (y + t*x_) / (y - t*x_) in GF(p)(t), <<DivZero, DivZero>> for a
\* division by zero.
NodeRatio(p, c, t, x_, y) ==
    LET num == EAdd(EEmb(y, p), EMul(t, EEmb(x_, p), c, p), p)
        den == ESub(EEmb(y, p), EMul(t, EEmb(x_, p), c, p), p)
    IN IF den = <<0, 0>> THEN <<DivZero, DivZero>> ELSE EDiv(num, den, c, p)

\* n = v.log(u) for one pair of candidates: DivZero for a division by zero,
\* None when the log does not exist.
NodeLog(p, c, t, gx_, gy_, px_, py_) ==
    LET u == NodeRatio(p, c, t, gx_, gy_)
        v == NodeRatio(p, c, t, px_, py_)
    IN IF u = <<DivZero, DivZero>> \/ v = <<DivZero, DivZero>> THEN DivZero
       ELSE ELog(v, u, c, p)

\* f_[2].sqrt(): a square root in GF(p), or the generator of GF(p^2).
SqrtExt(c, p) ==
    IF SqrtAll(c, p) = {} THEN {<<0, 1>>} ELSE {<<s, 0>> : s \in SqrtAll(c, p)}

\* The node branch: t^2 is the quadratic coefficient of f(x + root); one
\* discrete log per pair of candidates.
SingularNode ==
    /\ pc = "sing_node"
    /\ steps' = steps \cup {"sing_node"}
    /\ UNCHANGED <<args, started, G, P, movVars, curve_order, phVars, singVars>>
    /\ LET p == args.p
           gx_ == (args.gx - sing.root) % p
           px_ == (args.px - sing.root) % p
           c == Shifted(E, sing.root)[3]
       IN \E t \in SqrtExt(c, p) :
            LET ns == {NodeLog(p, c, t, gx_, yy[1], px_, yy[2]) : yy \in gys \X pys}
            IN IF DivZero \in ns
               THEN AttackFails("singular", "ZeroDivisionError")
               ELSE IF None \in ns
               THEN AttackFails("singular", "LogNotFound")
               ELSE AttackReturns(Result(ns, None))

\* ---------------------------------------------------------- interruption
InAttack ==
    {"mov_ext", "mov_sample", "mov_pair", "smart_lift", "smart_hensel",
     "smart_compute", "ph_loop", "sing_roots", "sing_cusp", "sing_node"}

\* The user interrupts the attack in progress: KeyboardInterrupt is raised
\* inside the attack.
Interrupt ==
    /\ pc \in InAttack
    /\ AttackFails(Last(started), "KeyboardInterrupt")
    /\ mov' = NoSample
    /\ UNCHANGED <<args, started, steps, G, P, k, curve_order, phVars, singVars>>

Next ==
    \/ DoAttacks
    \/ MovStart
    \/ MovExtend
    \/ MovSample
    \/ MovPairing
    \/ SmartStart
    \/ SmartLiftCurve
    \/ SmartHensel
    \/ SmartCompute
    \/ PhStart
    \/ PhFactor
    \/ PhFallback
    \/ SingularStart
    \/ SingularRoots
    \/ SingularCusp
    \/ SingularNode
    \/ Interrupt

Spec == Init /\ [][Next]_vars


\* ---------------------------------------------------------------- claims
\* The candidate y-coordinates of the arguments: the given y, or every
\* square root of f(x).
GCandidates == Candidates(E, args.gx, args.gy)
PCandidates == Candidates(E, args.px, args.py)

\* n * G == P for the points the attack worked on; the singular attack works
\* on every pair of candidate points.
Solves(n) ==
    IF Last(started) = "singular"
    THEN \E gy \in GCandidates, py \in PCandidates :
            Mul(E, n, <<args.gx, gy, 1>>) = <<args.px, py, 1>>
    ELSE Mul(E, n, G) = P

\* C1 (as stated): every value an attack returns, on every return path of
\* every attack (the allow_partial path of Pohlig-Hellman included),
\* satisfies n*G == P.
C1_AllResultsVerified ==
    out = "returned" => \A n \in res.n : Solves(n)

\* C1 (amended): every value returned by mov_attack, smart_attack,
\* singular_attack and by pohlig_hellman_attack on its early-exit and
\* Pollard-lambda paths satisfies n*G == P; the allow_partial path returns
\* the partial CRT value unchecked, and after at least one processed factor
\* that value does not satisfy crt*G == P.
C1_ResultsVerifiedExceptPartial ==
    out = "returned" =>
        IF fallback = "partial"
        THEN res.n = {crt} /\ (mods # <<>> => Mul(E, crt, G) # P)
        ELSE \A n \in res.n : Solves(n)

C1_Witness ==
    /\ out = "returned"
    /\ fallback = "lambda"
    /\ \E n \in res.n : n > 1 /\ Mul(E, n, G) = P

\* Other return paths of C1 that are reached.
C1_WitnessMov == out = "returned" /\ Last(started) = "mov" /\ \E n \in res.n : n > 1
C1_WitnessSmart == out = "returned" /\ Last(started) = "smart" /\ \E n \in res.n : n > 1
C1_WitnessEarlyExit ==
    out = "returned" /\ Last(started) = "ph" /\ fallback = "none" /\ Len(mods) > 1
C1_WitnessSingular ==
    out = "returned" /\ Last(started) = "singular" /\ Cardinality(res.n) > 1
C1_WitnessPartial == out = "returned" /\ fallback = "partial" /\ mods # <<>>

IsPrefix(s, t) == Len(s) <= Len(t) /\ \A i \in 1..Len(s) : s[i] = t[i]

DispatchOrder == <<"mov", "smart", "ph">>

\* Every attack before the last started one failed, in the order started.
EarlierFailed(upto) ==
    /\ Len(failures) = upto
    /\ \A i \in 1..upto : failures[i][1] = started[i]

\* C2: on a non-singular curve do_attacks starts MOV, Smart, Pohlig-Hellman
\* in this order; it returns the result of the first attack that succeeds
\* (every attack started before it failed, none is started after it), and it
\* returns None only after all three have failed.
C2_FixedOrderFirstSuccess ==
    (args.entry = "do_attacks" /\ Discriminant(E) # 0) =>
        /\ IsPrefix(started, DispatchOrder)
        /\ out = "running" => Len(failures) \in {Len(started) - 1, Len(started)}
        /\ out = "returned" =>
              /\ started # <<>>
              /\ EarlierFailed(Len(started) - 1)
              /\ \A n \in res.n : Solves(n)
        /\ out = "none" => started = DispatchOrder /\ EarlierFailed(3)

C2_Witness ==
    /\ args.entry = "do_attacks"
    /\ out = "returned"
    /\ started = <<"mov", "smart">>
    /\ failures = <<<<"mov", "NotSupersingular">>>>

C2_WitnessNone ==
    args.entry = "do_attacks" /\ out = "none" /\ started = DispatchOrder

\* The attacks that raised, and those among them that raised a failure (an
\* interruption is no failure of the attack).
FailedAttacks ==
    {failures[i][1] : i \in {j \in 1..Len(failures) : failures[j][2] # "KeyboardInterrupt"}}

Started == {started[i] : i \in 1..Len(started)}

\* The discriminant gates of the dispatcher alone.
DispatchGating ==
    args.entry = "do_attacks" =>
        /\ Started \cap {"mov", "smart", "ph"} # {} => Discriminant(E) # 0
        /\ "singular" \in Started => Discriminant(E) = 0

\* C3: MOV, Smart and Pohlig-Hellman are started only on a non-zero
\* discriminant, the singular attack only on a zero discriminant; when the
\* singular attack fails, no other attack is tried and the dispatch returns
\* None.
C3_GatingAndSingularFailure ==
    /\ DispatchGating
    /\ (args.entry = "do_attacks" /\ "singular" \in FailedAttacks) =>
          started = <<"singular">> /\ out = "none" /\ res = NoRes

\* The failure kinds of the error-handling design, as the attacks raise them.
DomainFailures ==
    {"ZeroDivisionError", "NoRoots", "NoMultipleRoot", "UnsupportedMultiplicity",
     "NotSupersingular", "NotAnomalous", "HenselLiftFailed", "NoSolution",
     "VerificationFailed"}

FailureKinds == {failures[i][2] : i \in 1..Len(failures)}

\* C4: the dispatcher recovers from every domain failure of a failed attack,
\* a division by a zero field element inside singular_attack included: none
\* of them leaves do_attacks; every other error class does.
C4_DomainFailuresRecovered ==
    args.entry = "do_attacks" =>
        /\ (out = "raised" /\ failures # <<>>) => exc \notin DomainFailures
        /\ ("KeyboardInterrupt" \in FailureKinds) =>
              out = "raised" /\ exc = "KeyboardInterrupt"

\* The part of C4 the handlers do implement: a failure is caught exactly
\* when its class is ValueError.
ValueErrorsRecovered ==
    args.entry = "do_attacks" =>
        /\ (out = "raised" /\ failures # <<>>) => ~Caught(exc)
        /\ \A i \in 1..Len(failures) :
              ~Caught(failures[i][2]) => out = "raised" /\ exc = failures[i][2]

\* C5: when a y-coordinate is missing and x has several valid y, the result
\* of the dispatcher holds a candidate n for every pair of valid
\* y-coordinates, on non-singular and on singular curves.
C5_AllCandidatesSurfaced ==
    (args.entry = "do_attacks" /\ out = "returned") =>
        \A gy \in GCandidates, py \in PCandidates :
            \E n \in res.n : Mul(E, n, <<args.gx, gy, 1>>) = <<args.px, py, 1>>

\* The singular half of C5, which singular_attack does implement.
SingularCandidatesSurfaced ==
    (out = "returned" /\ Last(started) = "singular") =>
        \A gy \in GCandidates, py \in PCandidates :
            \E n \in res.n : Mul(E, n, <<args.gx, gy, 1>>) = <<args.px, py, 1>>

\* C6: an interruption during an attack aborts that attack alone: the
\* dispatch is not ended, and after an interrupted MOV or Smart attack the
\* dispatcher goes on to the next attack.
C6_InterruptAbortsOnlyAttack ==
    args.entry = "do_attacks" =>
        \A i \in 1..Len(failures) :
            (failures[i][2] = "KeyboardInterrupt" /\ failures[i][1] \in {"mov", "smart"}) =>
                /\ out # "raised"
                /\ pc = NextAttack(failures[i][1]) \/ Len(started) > i

\* C7: after a factor loop that ended without crt*G == P exactly one
\* fallback is taken: the Pollard-lambda completion when max_n_bits > 0 (also
\* with allow_partial), else the return of ResultSet(crt, prod(mods)) when
\* allow_partial, else the failure NoSolution without a result.
C7_FallbackPriority ==
    LET ended == "ph" \in Started /\ fi > Len(factors)
        taken == steps \cap {"ph_lambda", "ph_partial"}
    IN /\ fallback # "none" => ended /\ (mods # <<>> => Mul(E, crt, G) # P)
       /\ (ended /\ pc = "done" /\ "KeyboardInterrupt" \notin FailureKinds) =>
             fallback # "none"
       /\ fallback # "none" =>
             /\ args.max_n_bits > 0 =>
                   fallback = "lambda" /\ taken = {"ph_lambda"}
             /\ (args.max_n_bits = 0 /\ args.allow_partial) =>
                   /\ fallback = "partial" /\ taken = {"ph_partial"}
                   /\ out = "returned" /\ res = Result({crt}, prod(mods))
             /\ (args.max_n_bits = 0 /\ ~args.allow_partial) =>
                   /\ fallback = "nosolution" /\ taken = {}
                   /\ out # "returned" /\ res = NoRes
                   /\ Last(failures) = <<"ph", "NoSolution">>
                   /\ Caught("NoSolution")

C7_Witness ==
    /\ fallback = "lambda"
    /\ args.allow_partial
    /\ mods # <<>>
    /\ out = "returned"

C7_WitnessPartial == fallback = "partial" /\ out = "returned" /\ mods # <<>>
C7_WitnessNoSolution == fallback = "nosolution" /\ out = "raised"

MovSteps == {"mov_extension", "mov_sample", "mov_pairing"}

\* The least k in 1..max_k with n | q^k - 1, or -1.
LeastDegree(q, n, max_k) ==
    LET S == {j \in 1..max_k : PowMod(q, j, n) = 1 % n}
    IN IF S = {} THEN -1 ELSE CHOOSE j \in S : \A i \in S : j <= i

\* d is the least j in 1..max_k with q^j = 1 modulo n, or -1 when there is none.
IsLeastDegree(d, q, n, max_k) ==
    /\ d = -1 \/ (d \in 1..max_k /\ PowMod(q, d, n) = 1 % n)
    /\ \A j \in 1..(IF d = -1 THEN max_k ELSE d - 1) : PowMod(q, j, n) # 1 % n

\* C8: mov_attack fails with NotSupersingular exactly when
\* embedding_degree(E, 20) is -1 or above 6, and then before the extension
\* curve is built, a point sampled or a pairing computed; for 1 <= k <= 6 it
\* does not raise this failure.
C8_NotSupersingularGate ==
    "mov" \in Started =>
        LET failed == \E i \in 1..Len(failures) :
                          failures[i] = <<"mov", "NotSupersingular">>
        IN /\ \A n \in {CurveOrder(E)} : IsLeastDegree(k, args.p, n, 20)
           /\ failed <=> (k = -1 \/ k > 6)
           /\ failed => steps \cap MovSteps = {}
           /\ (1 <= k /\ k <= 6) => ~failed

C8_Witness ==
    /\ k > 6
    /\ failures # <<>>
    /\ failures[1] = <<"mov", "NotSupersingular">>

C8_WitnessAbsent == k = -1 /\ failures # <<>> /\ failures[1] = <<"mov", "NotSupersingular">>
C8_WitnessPass == k \in 1..6 /\ "mov_pairing" \in steps

SmartSteps == {"smart_lift_curve", "smart_hensel", "smart_compute"}

\* C9: smart_attack fails with NotAnomalous whenever #E(Fp) differs from p,
\* before the curve or a point is lifted; the lifting steps are taken only
\* when #E(Fp) == p.
C9_NotAnomalousGate ==
    "smart" \in Started =>
        LET failed == \E i \in 1..Len(failures) :
                          failures[i] = <<"smart", "NotAnomalous">>
        IN /\ curve_order = Cardinality(AffinePoints(E)) + 1
           /\ failed <=> curve_order # args.p
           /\ failed => steps \cap SmartSteps = {}
           /\ steps \cap SmartSteps # {} => curve_order = args.p

C9_Witness ==
    /\ "smart" \in Started
    /\ curve_order # args.p
    /\ <<"smart", "NotAnomalous">> \in {failures[i] : i \in 1..Len(failures)}

C9_WitnessPass == "smart_hensel" \in steps /\ curve_order = args.p

\* (x - r)^m divides the cubic f of the curve, stated on the coefficients.
PowerDivides(cv, r, m) ==
    LET p == cv.p
    IN CASE m = 1 -> f(cv, r) = 0
         [] m = 2 -> \E s \in 0..(p - 1) :
                        /\ (cv.a2 + 2 * r + s) % p = 0
                        /\ (cv.a4 - r * r - 2 * r * s) % p = 0
                        /\ (cv.a6 + r * r * s) % p = 0
         [] m = 3 -> /\ (cv.a2 + 3 * r) % p = 0
                     /\ (cv.a4 - 3 * r * r) % p = 0
                     /\ (cv.a6 + r * r * r) % p = 0
         [] OTHER -> FALSE

\* The largest multiplicity of a root of f in GF(p), 0 without a root.
MaxMultiplicity(cv) ==
    LET S == {m \in 1..3 : \E r \in 0..(cv.p - 1) : PowerDivides(cv, r, m)}
    IN IF S = {} THEN 0 ELSE CHOOSE m \in S : \A j \in S : j <= m

SingularFailure(kinds) ==
    /\ failures # <<>>
    /\ Last(failures)[1] = "singular"
    /\ Last(failures)[2] \in kinds
    /\ out # "returned"
    /\ res = NoRes
    /\ steps \cap {"sing_cusp", "sing_node"} = {}

\* C10: singular_attack takes the root of largest multiplicity; it fails
\* with NoMultipleRoot when that multiplicity is below 2 or there is no root,
\* with UnsupportedMultiplicity when it is neither 2 nor 3, and otherwise
\* handles multiplicity 3 as a cusp and 2 as a node; a failure returns no
\* result set.
C10_RootClassification ==
    "sing_roots" \in steps =>
        LET mm == MaxMultiplicity(E)
        IN /\ mm < 2 => SingularFailure({"NoRoots", "NoMultipleRoot"})
           /\ (mm = 0) <=> (failures # <<>> /\ Last(failures)[2] = "NoRoots")
           /\ (mm >= 2 /\ mm \notin {2, 3}) =>
                 SingularFailure({"UnsupportedMultiplicity"})
           /\ mm \in {2, 3} =>
                 /\ sing.mult = mm
                 /\ PowerDivides(E, sing.root, mm)
                 /\ "sing_cusp" \in steps => mm = 3
                 /\ "sing_node" \in steps => mm = 2
                 /\ pc \in {"sing_cusp", "sing_node"} =>
                       pc = (IF mm = 3 THEN "sing_cusp" ELSE "sing_node")
                 /\ FailureKinds \cap
                       {"NoRoots", "NoMultipleRoot", "UnsupportedMultiplicity"} = {}

C10_Witness ==
    /\ "sing_node" \in steps
    /\ sing.mult = 2
    /\ \E r \in 0..(args.p - 1) : r # sing.root /\ f(E, r) = 0
    /\ out = "returned"

C10_WitnessCusp == "sing_cusp" \in steps /\ sing.mult = 3 /\ out = "returned"
C10_WitnessNoMultiple ==
    failures # <<>> /\ Last(failures) = <<"singular", "NoMultipleRoot">>
C10_WitnessNoRoots ==
    failures # <<>> /\ Last(failures) = <<"singular", "NoRoots">>

\* ==================================================================
\* libs/ecc_utils.py: invariants, Weierstrass forms, isomorphisms, point
\* transport and CRT lifting of the general model
\*     y^2 + a1*x*y + a3*y = x^3 + a2*x^2 + a4*x + a6
\* given by a_invs = <<a1, a2, a3, a4, a6>>. A point is <<x, y>>, with
\* y = None for a bare x-coordinate.
\* ==================================================================
\* Largest value of the coefficients a4, a6 of the curves the utility
\* functions are applied to.
MaxCoeff == 2

\* The outcome of a call: the returned value, or the class of the exception.
Ok(v) == [exc |-> "", val |-> v]
Err(kind) == [exc |-> kind, val |-> <<>>]

\* Python None as the result of isomorphism().
NoIso == <<>>

\* pow(x, -1, p) is defined (Python raises ValueError otherwise).
Invertible(x, p) == GCD(x % p, p) = 1

Range(s) == {s[i] : i \in DOMAIN s}

curve_contains_point(a_invs, p, X) ==
    LET x == X[1]
        y == X[2]
        a1 == a_invs[1]
        a2 == a_invs[2]
        a3 == a_invs[3]
        a4 == a_invs[4]
        a6 == a_invs[5]
    IN (((y * y) % p) + a1 * x * y + a3 * y - ((x * x * x) % p)
        - a2 * ((x * x) % p) - a4 * x - a6) % p = 0

\* calc_curve_params multiplying by P.x - Q.x instead of its inverse.
calc_curve_params_NoInverse(ps, X, Q) ==
    LET p == prod(ps)
        py2 == (X[2] * X[2]) % p
        qy2 == (Q[2] * Q[2]) % p
        px3 == (X[1] * X[1] * X[1]) % p
        qx3 == (Q[1] * Q[1] * Q[1]) % p
    IN IF ~Invertible(X[1] - Q[1], p) THEN Err("ValueError")
       ELSE LET a == (((py2 - qy2) - (px3 - qx3)) * (X[1] - Q[1])) % p
                b1 == (py2 - px3 - a * X[1]) % p
                b2 == (qy2 - qx3 - a * Q[1]) % p
            IN IF b1 # b2 THEN Err("AssertionError") ELSE Ok(<<a, b1>>)

\* calc_curve_params(p, P, Q) with p a list of moduli (an int p is the list
\* of that one modulus): <<a, b>> of y^2 = x^3 + a*x + b through P and Q.
calc_curve_params(ps, X, Q) ==
    LET p == prod(ps)
        py2 == (X[2] * X[2]) % p
        qy2 == (Q[2] * Q[2]) % p
        px3 == (X[1] * X[1] * X[1]) % p
        qx3 == (Q[1] * Q[1] * Q[1]) % p
    IN IF ~Invertible(X[1] - Q[1], p) THEN Err("ValueError")
       ELSE LET a == (((py2 - qy2) - (px3 - qx3)) * Inv(X[1] - Q[1], p)) % p
                b1 == (py2 - px3 - a * X[1]) % p
                b2 == (qy2 - qx3 - a * Q[1]) % p
            IN IF b1 # b2 THEN Err("AssertionError") ELSE Ok(<<a, b1>>)

b_invariants(a_invs, p) ==
    LET a1 == a_invs[1]
        a2 == a_invs[2]
        a3 == a_invs[3]
        a4 == a_invs[4]
        a6 == a_invs[5]
    IN << (a1 * a1 + 4 * a2) % p,
          (a1 * a3 + 2 * a4) % p,
          (((a3 * a3) % p) + 4 * a6) % p,
          (((a1 * a1) % p) * a6 + 4 * a2 * a6 - a1 * a3 * a4
           + a2 * ((a3 * a3) % p) - ((a4 * a4) % p)) % p >>

c_invariants(a_invs, p) ==
    LET b == b_invariants(a_invs, p)
        b2 == b[1]
        b4 == b[2]
        b6 == b[3]
    IN << (((b2 * b2) % p) - 24 * b4) % p,
          ((-((b2 * b2 * b2) % p)) + 36 * b2 * b4 - 216 * b6) % p >>

discriminant(a_invs, p) ==
    LET b == b_invariants(a_invs, p)
        b2 == b[1]
        b4 == b[2]
        b6 == b[3]
        b8 == b[4]
    IN ((-((b2 * b2) % p)) * b8 - 8 * ((b4 * b4 * b4) % p)
        - 27 * ((b6 * b6) % p) + 9 * b2 * b4 * b6) % p

\* j_invariant raises ValueError on a singular curve.
j_invariant(a_invs, p) ==
    LET c4 == c_invariants(a_invs, p)[1]
        d == discriminant(a_invs, p)
    IN IF d = 0 THEN Err("ValueError")
       ELSE Ok((((c4 * c4 * c4) % p) * Inv(d, p)) % p)

\* short_weier_form2 scaling c6 by -27 instead of -54.
short_weier_form2_Coeff(a_invs, p) ==
    LET b == b_invariants(a_invs, p)
        c == c_invariants(a_invs, p)
    IN IF a_invs[1] % p = 0 /\ a_invs[2] % p = 0 /\ a_invs[3] % p = 0
       THEN <<a_invs[4] % p, a_invs[5] % p>>
       ELSE IF b[1] = 0
       THEN <<(8 * b[2]) % p, (16 * b[3]) % p>>
       ELSE <<(-27 * c[1]) % p, (-27 * c[2]) % p>>

short_weier_form2(a_invs, p) ==
    LET b == b_invariants(a_invs, p)
        c == c_invariants(a_invs, p)
    IN IF a_invs[1] % p = 0 /\ a_invs[2] % p = 0 /\ a_invs[3] % p = 0
       THEN <<a_invs[4] % p, a_invs[5] % p>>
       ELSE IF b[1] = 0
       THEN <<(8 * b[2]) % p, (16 * b[3]) % p>>
       ELSE <<(-27 * c[1]) % p, (-54 * c[2]) % p>>

short_weier_form3(a_invs, p) ==
    LET b == b_invariants(a_invs, p)
    IN IF a_invs[1] % p = 0 /\ a_invs[3] % p = 0
       THEN <<a_invs[2] % p, a_invs[4] % p, a_invs[5] % p>>
       ELSE <<b[1] % p, (8 * b[2]) % p, (16 * b[3]) % p>>

long_weier_form(a_invs) ==
    CASE Len(a_invs) = 2 -> <<0, 0, 0, a_invs[1], a_invs[2]>>
      [] Len(a_invs) = 3 -> <<0, a_invs[1], 0, a_invs[2], a_invs[3]>>
      [] OTHER -> a_invs

\* (x**m - um).roots(multiplicities=False) over GF(p): the roots, listed in
\* the order of the library build (ascending or descending residues).
PolyRoots(m, um, p, root_order) ==
    LET S == {u \in 0..(p - 1) : Pow(u, m) % p = um % p}
        asc == SortedSeq(S)
    IN IF root_order = "ascending" THEN asc
       ELSE [i \in 1..Len(asc) |-> asc[Len(asc) + 1 - i]]

\* The (u, r, s, t) built for one root u; the divisions by 2 and 3 are those
\* of GF(p) with p > 3.
UrstOf(Ea, Fb, p, u) ==
    LET s == ((Fb[1] * u - Ea[1]) * Inv(2, p)) % p
        r == ((Fb[2] * u * u + Ea[1] * s + s * s - Ea[2]) * Inv(3, p)) % p
        t == ((Fb[3] * u * u * u - Ea[1] * r - Ea[3]) * Inv(2, p)) % p
    IN <<u, r, s, t>>

\* isomorphisms(E, F, p, just_one): every (u, r, s, t) found, sorted, or with
\* just_one the first one found (NoIso when there is none). pow(., -1, p) of a
\* non-invertible value raises ValueError.
isomorphisms(Ea, Fb, p, just_one, root_order) ==
    IF Ea = Fb
    THEN Ok(IF just_one THEN <<1, 0, 0, 0>> ELSE << <<1, 0, 0, 0>> >>)
    ELSE
      LET jE == j_invariant(Ea, p)
          jF == j_invariant(Fb, p)
          j == IF jE.exc # "" THEN None ELSE jE.val
          jf == IF jF.exc # "" THEN None ELSE jF.val
          cE == c_invariants(Ea, p)
          cF == c_invariants(Fb, p)
          c4E == cE[1]
          c6E == cE[2]
          c4F == cF[1]
          c6F == cF[2]
          m == IF j = 0 THEN 6 ELSE IF j = 1728 THEN 4 ELSE 2
          den == IF j = 0 THEN c6F ELSE IF j = 1728 THEN c4F ELSE c6F * c4E
          num == IF j = 0 THEN c6E ELSE IF j = 1728 THEN c4E ELSE c6E * c4F
      IN IF j # jf THEN Ok(IF just_one THEN NoIso ELSE <<>>)
         ELSE IF ~Invertible(den, p) THEN Err("ValueError")
         ELSE LET um == (num * Inv(den, p)) % p
                  ulist == PolyRoots(m, um, p, root_order)
                  sorted == SortedSeq(Range(ulist))
              IN IF just_one
                 THEN Ok(IF Len(ulist) = 0 THEN NoIso
                         ELSE UrstOf(Ea, Fb, p, ulist[1]))
                 ELSE Ok([i \in 1..Len(sorted) |-> UrstOf(Ea, Fb, p, sorted[i])])

isomorphism(Ea, Fb, p, root_order) == isomorphisms(Ea, Fb, p, TRUE, root_order)

\* dual_isomorphism with t negated and rescaled only (the term r*s left out).
dual_isomorphism_NoRS(urst, p) ==
    LET u == urst[1]
        r == urst[2]
        s == urst[3]
        t == urst[4]
        ui == Inv(u, p)
    IN << ui,
          ((-r) * ((ui * ui) % p)) % p,
          ((-s) * ui) % p,
          (((-t) % p) * ((ui * ui * ui) % p)) % p >>

dual_isomorphism(urst, p) ==
    LET u == urst[1]
        r == urst[2]
        s == urst[3]
        t == urst[4]
        ui == Inv(u, p)
    IN << ui,
          ((-r) * ((ui * ui) % p)) % p,
          ((-s) * ui) % p,
          (((r * s - t) % p) * ((ui * ui * ui) % p)) % p >>

\* morph_point with the shift by r left out.
morph_point_NoShift(urst, p, X) ==
    LET ui == Inv(urst[1], p)
        x1 == X[1] % p
        y1 == IF X[2] = None THEN None
              ELSE (((X[2] - (urst[3] * x1 + urst[4])) % p) * ((ui * ui * ui) % p)) % p
    IN <<(x1 * ((ui * ui) % p)) % p, y1>>

\* morph_point with the s-term taken on the transformed coordinate x'.
morph_point_STransformed(urst, p, X) ==
    LET ui == Inv(urst[1], p)
        x2 == (((X[1] - urst[2]) % p) * ((ui * ui) % p)) % p
        y1 == IF X[2] = None THEN None
              ELSE (((X[2] - (urst[3] * x2 + urst[4])) % p) * ((ui * ui * ui) % p)) % p
    IN <<x2, y1>>

morph_point(urst, p, X) ==
    LET ui == Inv(urst[1], p)
        x1 == (X[1] - urst[2]) % p
        y1 == IF X[2] = None THEN None
              ELSE (((X[2] - (urst[3] * x1 + urst[4])) % p) * ((ui * ui * ui) % p)) % p
    IN <<(x1 * ((ui * ui) % p)) % p, y1>>

\* The lift missing the points with y = 0.
LiftYs_NoZero(a_invs, x, p) ==
    {y \in 1..(p - 1) : curve_contains_point(a_invs, p, <<x, y>>)}

\* E.lift_x(x, all=True) over GF(p): the y-coordinates of the points at x.
LiftYs(a_invs, x, p) ==
    {y \in 0..(p - 1) : curve_contains_point(a_invs, p, <<x, y>>)}

\* lift_x combining the moduli that have a y-coordinate and leaving the
\* others out.
lift_x_Partial(a_invs, x, ps) ==
    IF \E i \in 1..Len(ps) : discriminant(a_invs, ps[i]) = 0
    THEN Err("ArithmeticError")
    ELSE LET HasY(q) == LiftYs(a_invs, x, q) # {}
             keep == SelectSeq(ps, HasY)
             top == CHOOSE q \in Range(ps) : \A o \in Range(ps) : o <= q
             product == {yl \in [1..Len(keep) -> 0..(top - 1)] :
                           \A i \in 1..Len(keep) : yl[i] \in LiftYs(a_invs, x, keep[i])}
         IN Ok(IF keep = <<>> THEN {}
               ELSE {<<x, CRT_list(yl, keep)>> : yl \in product})

\* lift_x(a_invs, x, ps): one point per element of the product of the
\* per-prime y sets, combined by CRT. EllipticCurve(GF(p), a_invs) raises
\* ArithmeticError when the invariants define a singular curve.
lift_x(a_invs, x, ps) ==
    IF \E i \in 1..Len(ps) : discriminant(a_invs, ps[i]) = 0
    THEN Err("ArithmeticError")
    ELSE LET top == CHOOSE q \in Range(ps) : \A o \in Range(ps) : o <= q
             product == {yl \in [1..Len(ps) -> 0..(top - 1)] :
                           \A i \in 1..Len(ps) : yl[i] \in LiftYs(a_invs, x, ps[i])}
         IN Ok({<<x, CRT_list(yl, ps)>> : yl \in product})

\* ------------------------------------------- runs of the utility functions
\* A run applies functions of ecc_utils to the arguments in args: pc is
\* "call" before the first one, res is the outcome of the function whose
\* result is being used, G the point handed to morph_point and P the
\* sequence of its images, one per map in use. The variables of the attacks
\* stay idle.
idleVars == <<out, exc, started, failures, k, mov, curve_order, phVars, singVars>>

\* The a-invariants of the image of E under the change of variables
\* x = u^2*x' + r, y = u^3*y' + s*u^2*x' + t that (u, r, s, t) stands for.
Transform(Ea, urst, p) ==
    LET a1 == Ea[1]
        a2 == Ea[2]
        a3 == Ea[3]
        a4 == Ea[4]
        a6 == Ea[5]
        r == urst[2]
        s == urst[3]
        t == urst[4]
        ui == Inv(urst[1], p)
    IN << ((a1 + 2 * s) * ui) % p,
          ((a2 - s * a1 + 3 * r - s * s) * Pow(ui, 2)) % p,
          ((a3 + r * a1 + 2 * t) * Pow(ui, 3)) % p,
          ((a4 - s * a3 + 2 * r * a2 - (t + r * s) * a1 + 3 * r * r - 2 * s * t)
           * Pow(ui, 4)) % p,
          ((a6 + r * a4 + r * r * a2 + r * r * r - t * a3 - t * t - r * t * a1)
           * Pow(ui, 6)) % p >>

\* Curves the functions are applied to.
AInvsInputs ==
    {<<a1, a2, a3, a4, a6>> : a1 \in {0, 1}, a2 \in {0, 1}, a3 \in {0, 1},
                              a4 \in 0..MaxCoeff, a6 \in 0..MaxCoeff}

\* Second curves of isomorphisms(E, F, p): images of E, and two fixed curves.
TargetCurves(Ea, p) ==
    {Transform(Ea, <<u, r, s, t>>, p) :
        u \in 1..(p - 1), r \in {0, 1}, s \in {0, 1}, t \in {0, 1}}
    \cup {<<0, 0, 0, 0, 1>>, <<0, 0, 0, 1, 0>>}

\* Points of a curve modulo n with reduced coordinates, and bare x-coordinates.
PointsMod(a_invs, n) ==
    {X \in (0..(n - 1)) \X (0..(n - 1)) : curve_contains_point(a_invs, n, X)}

PointInputs(a_invs, p) ==
    PointsMod(a_invs, p) \cup {<<x, None>> : x \in 0..(p - 1)}

RootOrders == {"ascending", "descending"}

\* Lists of moduli of lift_x and calc_curve_params.
LiftModuli == {<<5>>, <<7>>, <<5, 7>>, <<7, 5>>}
ParamModuli == {<<5>>, <<7>>, <<3, 5>>}

InitIsomorphisms ==
    \E p \in Primes : \E Ea \in AInvsInputs : \E Fb \in TargetCurves(Ea, p) :
        args = [entry |-> "isomorphisms", p |-> p, E |-> Ea, F |-> Fb,
                root_order |-> "ascending"]

InitIsomorphism ==
    \E p \in Primes : \E Ea \in AInvsInputs : \E Fb \in TargetCurves(Ea, p) :
    \E ro \in RootOrders :
        args = [entry |-> "isomorphism", p |-> p, E |-> Ea, F |-> Fb,
                root_order |-> ro]

InitMorphPoint ==
    \E p \in Primes : \E u \in 1..(p - 1) : \E r, s, t \in {0, 1, p - 1} :
    \E x \in 0..(p - 1) : \E y \in (0..(p - 1)) \cup {None} :
        args = [entry |-> "morph_point", p |-> p, urst |-> <<u, r, s, t>>,
                X |-> <<x, y>>]

\* lift_x(a_invs, P.x, ps) for a known point P of the curve modulo every
\* modulus of ps.
InitLiftX ==
    \E ps \in LiftModuli : \E a_invs \in AInvsInputs :
    \E X \in (0..(prod(ps) - 1)) \X (0..(prod(ps) - 1)) :
        /\ \A i \in 1..Len(ps) : curve_contains_point(a_invs, ps[i], X)
        /\ args = [entry |-> "lift_x", a_invs |-> a_invs, ps |-> ps, X |-> X]

\* lift_x(a_invs, x, ps) for any x below the product of the moduli.
InitLiftXAny ==
    \E ps \in LiftModuli : \E a_invs \in AInvsInputs :
    \E x \in 0..(prod(ps) - 1) :
        args = [entry |-> "lift_x", a_invs |-> a_invs, ps |-> ps, X |-> <<x, None>>]

\* calc_curve_params(p, P, Q) for two points of y^2 = x^3 + a*x + b mod p.
InitCalcCurveParams ==
    \E ps \in ParamModuli :
    \E a, b \in 0..(IF Len(ps) = 1 THEN prod(ps) - 1 ELSE MaxCoeff) :
    \E X, Q \in PointsMod(<<0, 0, 0, a, b>>, prod(ps)) :
        args = [entry |-> "calc_curve_params", ps |-> ps, a |-> a, b |-> b,
                X |-> X, Q |-> Q]

\* short_weier_form2 / short_weier_form3 of any a_invs, reduced or not.
InitShortWeierForm ==
    \E p \in Primes : \E a1, a2, a3 \in 0..p : \E a4, a6 \in 0..MaxCoeff :
        args = [entry |-> "short_weier_form", p |-> p,
                a_invs |-> <<a1, a2, a3, a4, a6>>]

InitUtils ==
    /\ \/ InitIsomorphisms
       \/ InitIsomorphism
       \/ InitMorphPoint
       \/ InitLiftX
       \/ InitLiftXAny
       \/ InitCalcCurveParams
       \/ InitShortWeierForm
    /\ pc = "call"
    /\ res = Ok(<<>>)
    /\ steps = {}
    /\ G = <<0, None>>
    /\ P = <<>>
    /\ out = "running"
    /\ exc = ""
    /\ started = <<>>
    /\ failures = <<>>
    /\ k = 0
    /\ mov = NoSample
    /\ curve_order = 0
    /\ ord_G = 0
    /\ factors = <<>>
    /\ fi = 1
    /\ mods = <<>>
    /\ logs = <<>>
    /\ crt = 0
    /\ fallback = "none"
    /\ gys = {}
    /\ pys = {}
    /\ sing = [root |-> None, mult |-> 0]

\* A call returned at least one map.
HasMaps(r) == r.exc = "" /\ r.val # <<>>

Isomorphisms ==
    /\ pc = "call"
    /\ args.entry = "isomorphisms"
    /\ res' = isomorphisms(args.E, args.F, args.p, FALSE, args.root_order)
    /\ steps' = steps \cup {"isomorphisms"}
    /\ pc' = IF HasMaps(res') THEN "map" ELSE "return"
    /\ UNCHANGED <<args, G, P, idleVars>>

Isomorphism ==
    /\ pc = "call"
    /\ args.entry = "isomorphism"
    /\ res' = isomorphism(args.E, args.F, args.p, args.root_order)
    /\ steps' = steps \cup {"isomorphism"}
    /\ pc' = IF HasMaps(res') THEN "map" ELSE "return"
    /\ UNCHANGED <<args, G, P, idleVars>>

\* The maps in use: the given one, the one of isomorphism, or each of the
\* list of isomorphisms (`for iso in isos`).
Maps ==
    CASE args.entry = "morph_point" -> <<args.urst>>
      [] args.entry = "isomorphism" -> <<res.val>>
      [] OTHER -> res.val

\* dual_isomorphism of every map in use.
DualIsomorphism ==
    /\ pc = "map"
    /\ res' = Ok(IF args.entry = "isomorphism"
                 THEN dual_isomorphism(res.val, args.p)
                 ELSE [i \in 1..Len(Maps) |-> dual_isomorphism(Maps[i], args.p)])
    /\ steps' = steps \cup {"dual_isomorphism"}
    /\ pc' = "return"
    /\ UNCHANGED <<args, G, P, idleVars>>

\* morph_point of a point (or bare x-coordinate) through every map in use.
MorphPoint ==
    /\ \/ pc = "call" /\ args.entry = "morph_point"
       \/ pc = "map"
    /\ \E X \in (IF args.entry = "morph_point" THEN {args.X}
                 ELSE PointInputs(args.E, args.p)) :
         /\ G' = X
         /\ P' = [i \in 1..Len(Maps) |-> morph_point(Maps[i], args.p, X)]
    /\ steps' = steps \cup {"morph_point"}
    /\ pc' = "morphed"
    /\ UNCHANGED <<args, res, idleVars>>

\* morph_point of every image through the dual of its map.
MorphBack ==
    /\ pc = "morphed"
    /\ P' = [i \in 1..Len(Maps) |->
                morph_point(dual_isomorphism(Maps[i], args.p), args.p, P[i])]
    /\ steps' = steps \cup {"morph_back"}
    /\ pc' = "return"
    /\ UNCHANGED <<args, res, G, idleVars>>

LiftXCrt ==
    /\ pc = "call"
    /\ args.entry = "lift_x"
    /\ res' = lift_x(args.a_invs, args.X[1], args.ps)
    /\ steps' = steps \cup {"lift_x"}
    /\ pc' = "return"
    /\ UNCHANGED <<args, G, P, idleVars>>

CalcCurveParams ==
    /\ pc = "call"
    /\ args.entry = "calc_curve_params"
    /\ res' = calc_curve_params(args.ps, args.X, args.Q)
    /\ steps' = steps \cup {"calc_curve_params"}
    /\ pc' = "return"
    /\ UNCHANGED <<args, G, P, idleVars>>

ShortWeierForm2 ==
    /\ pc = "call"
    /\ args.entry = "short_weier_form"
    /\ res' = Ok(short_weier_form2(args.a_invs, args.p))
    /\ steps' = steps \cup {"short_weier_form2"}
    /\ pc' = "return"
    /\ UNCHANGED <<args, G, P, idleVars>>

ShortWeierForm3 ==
    /\ pc = "call"
    /\ args.entry = "short_weier_form"
    /\ res' = Ok(short_weier_form3(args.a_invs, args.p))
    /\ steps' = steps \cup {"short_weier_form3"}
    /\ pc' = "return"
    /\ UNCHANGED <<args, G, P, idleVars>>

NextUtils ==
    \/ Isomorphisms
    \/ Isomorphism
    \/ DualIsomorphism
    \/ MorphPoint
    \/ MorphBack
    \/ LiftXCrt
    \/ CalcCurveParams
    \/ ShortWeierForm2
    \/ ShortWeierForm3

SpecUtils == InitUtils /\ [][NextUtils]_vars

\* ------------------------------------ singular_attack on a general curve
\* The arguments of singular_attack(a_invs, F, gx0, gy0, px0, py0). The
\* fields a2, a4, a6, gx, gy, px, py stand for the locals a, b, c, gx, gy,
\* px, py of the function, which the reduction assigns.
SingularArgs(p, a_invs, g, q) ==
    [entry |-> "singular_attack", p |-> p,
     a_invs |-> a_invs, gx0 |-> g[1], gy0 |-> g[2], px0 |-> q[1], py0 |-> q[2],
     a2 |-> a_invs[2], a4 |-> a_invs[4], a6 |-> a_invs[5],
     gx |-> g[1], gy |-> g[2], px |-> q[1], py |-> q[2],
     max_bits |-> 48, max_n_bits |-> 0, min_n_bits |-> 1, allow_partial |-> FALSE]

\* The curves of the calls: a1, a3 in {0, 1}, any a2, a4, a6.
SingularInputs(p) ==
    {<<a1, a2, a3, a4, a6>> : a1 \in {0, 1}, a2 \in 0..(p - 1), a3 \in {0, 1},
                              a4 \in 0..(p - 1), a6 \in 0..(p - 1)}

\* singular_attack called on any cubic, with points of the curve or bare
\* x-coordinates.
InitSingularAttack ==
    /\ \E p \in SingularPrimes : \E a_invs \in SingularInputs(p) :
       \E g, q \in PointInputs(a_invs, p) :
           /\ args = SingularArgs(p, a_invs, g, q)
           /\ pc = "singular_reduce"
    /\ InitLocals

\* `if a1 % p == 0 and a3 % p == 0` of singular_attack.
AlreadyShort(a_invs, p) == a_invs[1] % p = 0 /\ a_invs[3] % p = 0

\* The reduction to y^2 = x^3 + a*x^2 + b*x + c: nothing to do when
\* a1 = a3 = 0; otherwise the short form, an isomorphism to it (pow raises
\* ValueError for a denominator that is not invertible; unpacking None
\* raises TypeError) and the transport of the two points.
SingularReduce ==
    /\ pc = "singular_reduce"
    /\ UNCHANGED <<G, P, movVars, curve_order, phVars, singVars>>
    /\ IF AlreadyShort(args.a_invs, args.p)
       THEN /\ args' = args
            /\ steps' = steps
            /\ pc' = "try_singular"
            /\ UNCHANGED <<out, exc, res, started, failures>>
       ELSE \E root_order \in RootOrders :
            \E abc \in {short_weier_form3(args.a_invs, args.p)} :
            \E long_form \in {long_weier_form(abc)} :
            \E urst \in {isomorphism(args.a_invs, long_form, args.p, root_order)} :
              /\ steps' = steps \cup {"sing_isomorphism"}
              /\ IF urst.exc # ""
                 THEN /\ AttackFails("singular", "NotInvertible")
                      /\ started' = Append(started, "singular")
                      /\ args' = args
                 ELSE IF urst.val = NoIso
                 THEN /\ AttackFails("singular", "TypeError")
                      /\ started' = Append(started, "singular")
                      /\ args' = args
                 ELSE \E g \in {morph_point(urst.val, args.p, <<args.gx0, args.gy0>>)} :
                      \E q \in {morph_point(urst.val, args.p, <<args.px0, args.py0>>)} :
                        /\ args' = [args EXCEPT !.a2 = abc[1], !.a4 = abc[2],
                                                !.a6 = abc[3],
                                                !.gx = g[1], !.gy = g[2],
                                                !.px = q[1], !.py = q[2]]
                        /\ pc' = "try_singular"
                        /\ UNCHANGED <<out, exc, res, started, failures>>

NextSingular ==
    \/ SingularReduce
    \/ SingularStart
    \/ SingularRoots
    \/ SingularCusp
    \/ SingularNode
    \/ Interrupt

SpecSingular == InitSingularAttack /\ [][NextSingular]_vars

\* ------------------------------------------------ properties of ecc_utils
NonSingular(a_invs, p) == discriminant(a_invs, p) # 0

Reduced(a_invs, p) == [i \in 1..5 |-> a_invs[i] % p]

\* Ea and Fb are isomorphic over GF(p): some admissible change of variables
\* (u, r, s, t), u # 0, carries the equation of Ea to the equation of Fb.
Isomorphic(Ea, Fb, p) ==
    \E u \in 1..(p - 1) : \E s \in 0..(p - 1) :
        /\ ((Ea[1] + 2 * s) * Inv(u, p)) % p = Fb[1] % p
        /\ \E r \in 0..(p - 1) :
             /\ ((Ea[2] - s * Ea[1] + 3 * r - s * s) * Pow(Inv(u, p), 2)) % p
                = Fb[2] % p
             /\ \E t \in 0..(p - 1) :
                  Transform(Ea, <<u, r, s, t>>, p) = Reduced(Fb, p)

\* C11: for isomorphic (non-singular) curves E and F the dual of the map
\* returned by isomorphism(E, F, p) is the map returned by
\* isomorphism(F, E, p).
C11_DualOfIsomorphism ==
    (/\ args.entry = "isomorphism"
     /\ "dual_isomorphism" \in steps
     /\ NonSingular(args.E, args.p)
     /\ Isomorphic(args.E, args.F, args.p))
    => LET back == isomorphism(args.F, args.E, args.p, args.root_order)
       IN back.exc = "" /\ res.val = back.val

\* What does hold: the dual is one of the maps of isomorphisms(F, E, p).
DualAmongIsomorphisms ==
    (/\ args.entry = "isomorphism"
     /\ "dual_isomorphism" \in steps)
    => LET back == isomorphisms(args.F, args.E, args.p, FALSE, args.root_order)
       IN back.exc = "" /\ res.val \in Range(back.val)

\* C12: for isomorphic (non-singular) curves E and F both isomorphisms(E, F, p)
\* and isomorphisms(F, E, p) are non-empty, and the dual of every element of
\* the first is an element of the second.
C12_DualsInReverseList ==
    (/\ args.entry = "isomorphisms"
     /\ pc # "call"
     /\ NonSingular(args.E, args.p)
     /\ Isomorphic(args.E, args.F, args.p))
    => LET fwd == isomorphisms(args.E, args.F, args.p, FALSE, args.root_order)
           back == isomorphisms(args.F, args.E, args.p, FALSE, args.root_order)
       IN /\ HasMaps(fwd)
          /\ HasMaps(back)
          /\ \A i \in 1..Len(fwd.val) :
                 dual_isomorphism(fwd.val[i], args.p) \in Range(back.val)

\* The same for the curves whose c6 is not 0 modulo p (j # 1728 mod p).
DualsInReverseListC6 ==
    (/\ args.entry = "isomorphisms"
     /\ pc # "call"
     /\ NonSingular(args.E, args.p)
     /\ c_invariants(args.E, args.p)[2] # 0
     /\ Isomorphic(args.E, args.F, args.p))
    => LET fwd == isomorphisms(args.E, args.F, args.p, FALSE, args.root_order)
           back == isomorphisms(args.F, args.E, args.p, FALSE, args.root_order)
       IN /\ HasMaps(fwd)
          /\ HasMaps(back)
          /\ \A i \in 1..Len(fwd.val) :
                 dual_isomorphism(fwd.val[i], args.p) \in Range(back.val)

\* C13: morph_point through (u, r, s, t), u invertible, followed by
\* morph_point through its dual gives back the point (a bare x-coordinate
\* included).
C13_MorphRoundTrip ==
    (args.entry = "morph_point" /\ "morph_back" \in steps) => P[1] = args.X

C13_Witness ==
    /\ args.entry = "morph_point"
    /\ "morph_back" \in steps
    /\ args.X[2] # None
    /\ args.urst[1] > 1
    /\ \A i \in 2..4 : args.urst[i] # 0
    /\ P[1] = args.X

\* C14: every map returned by isomorphism or isomorphisms(E, F, p) carries
\* every point of E to a point of F, and carries a bare x-coordinate to the
\* x-coordinate of the image of the full point, y staying None.
C14_MorphedPointOnTarget ==
    (args.entry \in {"isomorphism", "isomorphisms"} /\ pc = "morphed")
    => \A i \in 1..Len(Maps) :
         IF G[2] # None
         THEN /\ curve_contains_point(args.F, args.p, P[i])
              /\ morph_point(Maps[i], args.p, <<G[1], None>>) = <<P[i][1], None>>
         ELSE /\ P[i][2] = None
              /\ \A y \in 0..(args.p - 1) :
                     morph_point(Maps[i], args.p, <<G[1], y>>)[1] = P[i][1]

C14_Witness ==
    /\ args.entry = "isomorphisms"
    /\ pc = "morphed"
    /\ args.E # args.F
    /\ Len(Maps) >= 2
    /\ Maps[1][2] # 0
    /\ Maps[1][3] # 0
    /\ G[2] # None
    /\ curve_contains_point(args.F, args.p, P[1])
    /\ P[1] # G

C14_WitnessBareX ==
    /\ args.entry = "isomorphism"
    /\ pc = "morphed"
    /\ args.E # args.F
    /\ G[2] = None
    /\ P[1][1] # G[1]

\* C15 as stated: for a point P of the curve modulo every modulus of ps,
\* with reduced coordinates, lift_x(a_invs, P.x, ps) returns a set holding P.
C15_LiftContainsPoint ==
    (args.entry = "lift_x" /\ args.X[2] # None /\ pc = "return")
    => res.exc = "" /\ args.X \in res.val

\* C15: it does when the curve is non-singular modulo every modulus of ps;
\* when it is singular modulo one of them lift_x raises ArithmeticError.
C15_LiftContainsPointNonSingular ==
    (args.entry = "lift_x" /\ args.X[2] # None /\ pc = "return")
    => IF \A i \in 1..Len(args.ps) : NonSingular(args.a_invs, args.ps[i])
       THEN res.exc = "" /\ args.X \in res.val
       ELSE res.exc = "ArithmeticError"

C15_Witness ==
    /\ args.entry = "lift_x"
    /\ pc = "return"
    /\ Len(args.ps) = 2
    /\ res.exc = ""
    /\ Cardinality(res.val) = 4
    /\ args.X \in res.val
    /\ args.X[2] >= 7

C15_WitnessSingular ==
    /\ args.entry = "lift_x"
    /\ args.X[2] # None
    /\ pc = "return"
    /\ res.exc = "ArithmeticError"

\* C16: calc_curve_params(p, P, Q) for two points of y^2 = x^3 + a*x + b
\* returns exactly <<a mod p, b mod p>> when P.x - Q.x is invertible modulo p
\* (so both points are on the returned curve), and raises ValueError when it
\* is not.
C16_CurveParamsRecovered ==
    (args.entry = "calc_curve_params" /\ pc = "return")
    => LET n == prod(args.ps)
       IN IF Invertible(args.X[1] - args.Q[1], n)
          THEN /\ res = Ok(<<args.a % n, args.b % n>>)
               /\ curve_contains_point(long_weier_form(res.val), n, args.X)
               /\ curve_contains_point(long_weier_form(res.val), n, args.Q)
          ELSE res.exc = "ValueError"

C16_Witness ==
    /\ args.entry = "calc_curve_params"
    /\ pc = "return"
    /\ res.exc = ""
    /\ res.val = <<args.a, args.b>>
    /\ args.a # 0
    /\ args.b # 0
    /\ args.X[2] # args.Q[2]

C16_WitnessComposite ==
    /\ args.entry = "calc_curve_params"
    /\ pc = "return"
    /\ Len(args.ps) = 2
    /\ res.exc = ""
    /\ res.val[1] # 0

C16_WitnessNotInvertible ==
    /\ args.entry = "calc_curve_params"
    /\ pc = "return"
    /\ Len(args.ps) = 2
    /\ args.X[1] # args.Q[1]
    /\ res.exc = "ValueError"

\* The j-invariant of a non-singular model.
JOf(a_invs, p) == j_invariant(a_invs, p).val

\* C17: short_weier_form2 returns <<a4, a6>> mod p when a1, a2, a3 are 0
\* mod p, short_weier_form3 returns <<a2, a4, a6>> mod p when a1 and a3 are 0
\* mod p; in every other case the returned model of a non-singular curve has
\* the j-invariant of the curve (p > 3), so the three forms share it.
C17_ShortFormsKeepJ ==
    (args.entry = "short_weier_form" /\ pc = "return")
    => LET a == args.a_invs
           p == args.p
           long == long_weier_form(res.val)
       IN /\ ("short_weier_form2" \in steps
                /\ a[1] % p = 0 /\ a[2] % p = 0 /\ a[3] % p = 0)
             => res.val = <<a[4] % p, a[5] % p>>
          /\ ("short_weier_form3" \in steps /\ a[1] % p = 0 /\ a[3] % p = 0)
             => res.val = <<a[2] % p, a[4] % p, a[5] % p>>
          /\ NonSingular(a, p)
             => /\ NonSingular(long, p)
                /\ JOf(long, p) = JOf(a, p)
                /\ JOf(long_weier_form(short_weier_form2(a, p)), p)
                   = JOf(long_weier_form(short_weier_form3(a, p)), p)

C17_Witness ==
    /\ args.entry = "short_weier_form"
    /\ pc = "return"
    /\ "short_weier_form2" \in steps
    /\ args.a_invs[1] % args.p # 0
    /\ b_invariants(args.a_invs, args.p)[1] # 0
    /\ NonSingular(args.a_invs, args.p)
    /\ JOf(long_weier_form(res.val), args.p) = JOf(args.a_invs, args.p)
    /\ JOf(args.a_invs, args.p) # 0

C17_WitnessB2Zero ==
    /\ args.entry = "short_weier_form"
    /\ pc = "return"
    /\ "short_weier_form2" \in steps
    /\ args.a_invs[3] % args.p # 0
    /\ b_invariants(args.a_invs, args.p)[1] = 0
    /\ NonSingular(args.a_invs, args.p)

C17_WitnessForm3 ==
    /\ args.entry = "short_weier_form"
    /\ pc = "return"
    /\ "short_weier_form3" \in steps
    /\ args.a_invs[1] % args.p # 0
    /\ NonSingular(args.a_invs, args.p)
    /\ res.val[1] # 0

C17_WitnessUnchanged ==
    /\ args.entry = "short_weier_form"
    /\ pc = "return"
    /\ "short_weier_form3" \in steps
    /\ args.a_invs[1] = args.p
    /\ args.a_invs[3] = 0
    /\ args.a_invs[2] = args.p
    /\ res.val = <<0, args.a_invs[4], args.a_invs[5]>>

\* ------------------------------------- properties of the attacks, continued
\* The prime powers of the factors whose prime is within the size limit.
RECURSIVE UsedPowers(_, _)
UsedPowers(fs, limit) ==
    IF fs = <<>> THEN <<>>
    ELSE (IF nbits(fs[1][1]) <= limit THEN <<Pow(fs[1][1], fs[1][2])>> ELSE <<>>)
         \o UsedPowers(Tail(fs), limit)

\* The CRT of the first j logs.
PartialCrt(j) == CRT_list(SubSeq(logs, 1, j), SubSeq(mods, 1, j))

\* pohlig_hellman_attack returned from inside its factor loop.
ReturnedInLoop ==
    "ph" \in Started /\ out = "returned" /\ fallback = "none"

\* C18: pohlig_hellman_attack takes the prime-power factors of order(G) in
\* ascending order of prime, uses exactly those whose prime has at most
\* size_limit bits, keeps crt the CRT of all logs found so far, and returns
\* at the first factor after which crt*G == P, leaving the later factors
\* untouched.
C18_FactorLoop ==
    ("ph" \in Started /\ pc # "try_ph") =>
        /\ ord_G = Order(E, G)
        /\ \A i \in 1..Len(factors) : IsPrime(factors[i][1]) /\ factors[i][2] >= 1
        /\ \A i, j \in 1..Len(factors) : i < j => factors[i][1] < factors[j][1]
        /\ prod([i \in 1..Len(factors) |-> Pow(factors[i][1], factors[i][2])]) = ord_G
        /\ \E j \in {fi - 1, fi} \cap (0..Len(factors)) :
               mods = UsedPowers(SubSeq(factors, 1, j), args.max_bits)
        /\ Len(logs) \in {Len(mods), Len(mods) - 1}
        /\ \A i \in 1..Len(logs) :
               Mul(E, logs[i], Mul(E, ord_G \div mods[i], G))
                   = Mul(E, ord_G \div mods[i], P)
        /\ logs # <<>> => crt = PartialCrt(Len(logs))
        /\ \A j \in 1..(Len(logs) - 1) : Mul(E, PartialCrt(j), G) # P
        /\ IF ReturnedInLoop
           THEN /\ Mul(E, crt, G) = P
                /\ res = Result({crt}, prod(mods))
                /\ Len(logs) = Len(mods)
                /\ fi <= Len(factors)
                /\ mods = UsedPowers(SubSeq(factors, 1, fi), args.max_bits)
           ELSE logs # <<>> => Mul(E, crt, G) # P

\* Returned at the first of two factors: no log was computed for the second.
C18_Witness ==
    /\ ReturnedInLoop
    /\ Len(factors) = 2
    /\ fi = 1
    /\ Len(logs) = 1
    /\ crt > 0

C18_WitnessSecondFactor ==
    ReturnedInLoop /\ Len(factors) = 2 /\ fi = 2 /\ Len(logs) = 2

C18_WitnessSkipped ==
    /\ "ph" \in Started
    /\ fallback # "none"
    /\ Len(factors) = 2
    /\ Len(mods) = 1
    /\ mods[1] = Pow(factors[1][1], factors[1][2])

\* The numbers n of the claimed size with n*G == P.
TrueLogs ==
    {n \in 1..(Pow(2, args.max_n_bits) - 1) :
        nbits(n) >= args.min_n_bits /\ Mul(E, n, G) = P}

\* C19: in the Pollard-lambda fallback lower = floor(2^(min_n_bits-1) / mod)
\* or 1, upper = floor(2^max_n_bits / mod) + 1; every n with n*G == P of
\* min_n_bits..max_n_bits bits has (n - crt) / mod in [lower, upper), with
\* lower < upper, the search interval holds that quotient, and the value
\* rebuilt from it, (log*mod + crt) mod order(G), satisfies n*G == P.
C19_LambdaInterval ==
    fallback = "lambda" =>
        LET mod == prod(mods)
            floorLow == Pow(2, args.min_n_bits - 1) \div mod
            lower == IF floorLow = 0 THEN 1 ELSE floorLow
            upper == (Pow(2, args.max_n_bits) \div mod) + 1
            GP_ == Add(E, P, Neg(E, Mul(E, crt, G)))
            G_ == Mul(E, mod, G)
        IN /\ lower_bound(args.min_n_bits, mod) = lower
           /\ upper_bound(args.max_n_bits, mod) = upper
           /\ \A n \in TrueLogs :
                LET q == (n - crt) \div mod
                IN /\ (n - crt) % mod = 0
                   /\ lower <= q
                   /\ q < upper
                   /\ lower < upper
                   /\ q \in LambdaLogs(E, GP_, G_, lower_bound(args.min_n_bits, mod),
                                      upper_bound(args.max_n_bits, mod))
                   /\ Mul(E, (q * mod + crt) % ord_G, G) = P
           /\ out = "returned" => \A n \in res.n : Mul(E, n, G) = P

C19_Witness ==
    /\ fallback = "lambda"
    /\ mods # <<>>
    /\ out = "returned"
    /\ \E n \in TrueLogs : (n - crt) \div prod(mods) >= 2

C19_WitnessNoFactor ==
    fallback = "lambda" /\ mods = <<>> /\ out = "returned" /\ TrueLogs # {}

\* C20: the embedding degree mov_attack uses is the least k >= 1 with
\* n | q^k - 1 for n the order of G, or -1 when there is none up to
\* MAX_DEGREE.
C20_EmbeddingDegreeOfG ==
    "mov" \in Started => k = LeastDegree(args.p, Order(E, G), MAX_DEGREE)

\* The gate refuses no curve whose degree for the order of G is 1..6.
MovGateByOrderOfG ==
    (\E i \in 1..Len(failures) : failures[i] = <<"mov", "NotSupersingular">>)
    => LeastDegree(args.p, Order(E, G), MAX_DEGREE) \notin 1..6

C21_WitnessResample ==
    /\ pc = "mov_sample"
    /\ mov.tries > 0
    /\ mov.d > 1
    /\ mov.d < mov.n
    /\ mov.m % mov.d = 0
    /\ mov.n % mov.m # 0

\* ------------------------------------- the sampling loop without a bound
\* mov_attack(G, P) called on two points of a non-singular curve.
InitMov ==
    /\ \E p \in Primes : \E a, b \in 0..(p - 1) :
       \E g, q \in AffinePoints(Curve(p, 0, a, b)) :
           /\ Discriminant(Curve(p, 0, a, b)) # 0
           /\ args = Args("mov_attack", p, 0, a, b, g, q, 48, 0, 1, FALSE)
           /\ pc = "try_mov"
    /\ InitLocals

\* An iteration of `while True` past the iterations MovSample counts: the
\* loop has no counter, so the iteration is the same and can always be taken.
MovResample ==
    /\ pc = "mov_sample"
    /\ mov.tries >= MaxTries
    /\ steps' = steps \cup {"mov_resample"}
    /\ \E m \in SampleOrders(mov.n) :
         LET d == GCD(m, mov.n)
             ordB == CyclicOrder(m \div d, m)
         IN /\ mov' = [mov EXCEPT !.m = m, !.d = d, !.ordB = ordB]
            /\ pc' = IF ordB = mov.n THEN "mov_pair" ELSE "mov_sample"
    /\ UNCHANGED <<args, out, exc, res, started, failures, G, P, k,
                   curve_order, phVars, singVars>>

\* An iteration that ends at `break`.
MovLeaveLoop == (MovSample \/ MovResample) /\ pc' = "mov_pair"

NextMov ==
    \/ MovStart
    \/ MovExtend
    \/ MovSample
    \/ MovResample
    \/ MovPairing

\* Fair random sampling: Ek.random_point() is uniform, so a point that ends
\* the loop, when there is one, is not avoided forever.
SpecMov == InitMov /\ [][NextMov]_vars /\ WF_vars(MovLeaveLoop)

\* C22: the sampling loop of mov_attack has no retry cap: under fair random
\* sampling it is left, to the pairings, whenever Ek has a point whose order
\* is a multiple of n; it is left in no other way, and no failure is raised
\* from inside it, so without such a point it would never terminate.
C22_SamplingTerminates ==
    /\ (pc = "mov_sample") ~> (pc = "mov_pair")
    /\ [][pc = "mov_sample" =>
            /\ pc' \in {"mov_sample", "mov_pair"}
            /\ failures' = failures
            /\ out' = "running"]_vars

\* The loop was left after more iterations than the model counts.
C22_Witness ==
    /\ pc = "mov_pair"
    /\ "mov_resample" \in steps
    /\ mov.tries = MaxTries
    /\ mov.ordB = mov.n

\* --------------------------------------- claims on the singular reduction
\* The failures of the isomorphism step of singular_attack.
IsomorphismFailed ==
    \E i \in 1..Len(failures) :
        failures[i] \in {<<"singular", "NotInvertible">>, <<"singular", "TypeError">>}

\* The locals after the reduction are the short cubic of a_invs with the two
\* points on it (a bare x-coordinate stays bare).
TransportedOntoShortCubic ==
    /\ <<args.a2, args.a4, args.a6>> = short_weier_form3(args.a_invs, args.p)
    /\ IF args.gy0 = None THEN args.gy = None
       ELSE OnCurve(E, args.gx, args.gy)
    /\ IF args.py0 = None THEN args.py = None
       ELSE OnCurve(E, args.px, args.py)

\* C23: for every singular curve with a1 or a3 non-zero mod p, nodal or
\* cuspidal, singular_attack gets an isomorphism to the long form of
\* short_weier_form3 (no None, no inversion failure) and the transported G
\* and P lie on the short cubic; with a1 = a3 = 0 mod p it uses
\* (a2, a4, a6) and the points unchanged and computes no isomorphism.
C23_SingularReduction ==
    pc # "singular_reduce" =>
      IF AlreadyShort(args.a_invs, args.p)
      THEN /\ <<args.a2, args.a4, args.a6>> =
                <<args.a_invs[2], args.a_invs[4], args.a_invs[5]>>
           /\ <<args.gx, args.gy, args.px, args.py>> =
                <<args.gx0, args.gy0, args.px0, args.py0>>
           /\ "sing_isomorphism" \notin steps
      ELSE discriminant(args.a_invs, args.p) = 0 =>
             /\ ~IsomorphismFailed
             /\ TransportedOntoShortCubic

\* The same for the curves that are not cuspidal (c4 # 0): the reduction of
\* a nodal curve always succeeds.
NodalReduction ==
    (/\ pc # "singular_reduce"
     /\ ~AlreadyShort(args.a_invs, args.p)
     /\ discriminant(args.a_invs, args.p) = 0
     /\ c_invariants(args.a_invs, args.p)[1] # 0) =>
        /\ ~IsomorphismFailed
        /\ "sing_isomorphism" \in steps
        /\ TransportedOntoShortCubic

\* A cuspidal curve with a1 or a3 non-zero: the inversion fails.
CuspidalReductionFails ==
    (/\ pc # "singular_reduce"
     /\ ~AlreadyShort(args.a_invs, args.p)
     /\ discriminant(args.a_invs, args.p) = 0
     /\ c_invariants(args.a_invs, args.p)[1] = 0) =>
        /\ failures = << <<"singular", "NotInvertible">> >>
        /\ out = "raised"

\* ----------------------------------------- claims on the singular logs
\* n is the value the claim gives for the pair yy = <<gy, py>>: for a cusp
\* n = ((px - r)/py) / ((gx - r)/gy) in GF(p), stated without division; for a
\* node u^n = v with u, v the ratios of the claim and t^2 the quadratic
\* coefficient of f(x + r).
PairLog(n, yy) ==
    LET p == args.p
        gx_ == (args.gx - sing.root) % p
        px_ == (args.px - sing.root) % p
        c == Shifted(E, sing.root)[3]
    IN IF sing.mult = 3
       THEN /\ n \in 0..(p - 1)
            /\ (n * gx_ * yy[2]) % p = (px_ * yy[1]) % p
       ELSE \E t \in SqrtExt(c, p) :
              /\ (EMul(t, t, c, p) = EEmb(c, p))
              /\ EPow(NodeRatio(p, c, t, gx_, yy[1]), n, c, p)
                   = NodeRatio(p, c, t, px_, yy[2])

\* Some pair of candidate points, none of them the singular point, has
\* P = n*G in the group of the non-singular points.
PairSolvable ==
    /\ (args.gx - sing.root) % args.p # 0
    /\ (args.px - sing.root) % args.p # 0
    /\ \E gy \in gys, py \in pys : \E n \in 1..(args.p + 1) :
         Mul(E, n, <<args.gx, gy, 1>>) = <<args.px, py, 1>>

SingularFinished ==
    /\ pc = "done"
    /\ ("sing_cusp" \in steps \/ "sing_node" \in steps)
    /\ \A i \in 1..Len(failures) : failures[i][2] # "KeyboardInterrupt"

\* C24: singular_attack computes one logarithm for every pair in gys x pys
\* (the supplied y, or every square root of f(x)) and returns exactly these
\* values, each given by the cusp quotient or the node logarithm of its
\* pair; every pair is solved by a returned value, and when P = n*G for
\* non-singular candidate points the attack returns such a set.
C24_SingularLogs ==
    /\ out = "returned" =>
         /\ gys = GCandidates
         /\ pys = PCandidates
         /\ \A yy \in gys \X pys : \E n \in res.n : PairLog(n, yy)
         /\ \A n \in res.n : \E yy \in gys \X pys : PairLog(n, yy)
         /\ \A yy \in gys \X pys : \E n \in res.n :
              Mul(E, n, <<args.gx, yy[1], 1>>) = <<args.px, yy[2], 1>>
    /\ (SingularFinished /\ PairSolvable) => out = "returned"

\* A cusp with two candidates for Py and two different logarithms.
C24_Witness ==
    /\ out = "returned"
    /\ sing.mult = 3
    /\ args.py = None
    /\ Cardinality(pys) = 2
    /\ Cardinality(res.n) = 2
    /\ \E n \in res.n : n > 1

\* A node whose t is not in GF(p), on a curve given with a1 or a3 non-zero.
C24_WitnessNode ==
    /\ out = "returned"
    /\ sing.mult = 2
    /\ SqrtAll(Shifted(E, sing.root)[3], args.p) = {}
    /\ ~AlreadyShort(args.a_invs, args.p)
    /\ \E n \in res.n : n > 2

\* A node with t in GF(p) and candidates for both y-coordinates.
C24_WitnessSplit ==
    /\ out = "returned"
    /\ sing.mult = 2
    /\ SqrtAll(Shifted(E, sing.root)[3], args.p) # {}
    /\ Cardinality(gys \X pys) = 4
    /\ Cardinality(res.n) = 2

\* -------------------------------------------------- claims on morph_point
\* C25 as stated: morph_point(urst, p, (x, y)) returns x' = (x - r)*u^-2 and
\* y' = (y - (s*x' + t))*u^-3 mod p, the s-term taken on the transformed x'.
C25_STermOnTransformedX ==
    (args.entry = "morph_point" /\ pc = "morphed" /\ G[2] # None) =>
        LET p == args.p
            ui == Inv(args.urst[1], p)
            x2 == ((G[1] - args.urst[2]) * ui * ui) % p
        IN /\ P[1][1] = x2
           /\ P[1][2] = ((G[2] - (args.urst[3] * x2 + args.urst[4])) * ui * ui * ui) % p

\* C25 (amended): morph_point(urst, p, (x, y)) returns x' = (x - r)*u^-2 and
\* y' = (y - (s*(x - r) + t))*u^-3 mod p: the s-term is taken on the shifted
\* coordinate x - r before it is scaled; a missing y stays None.
C25_STermOnShiftedX ==
    (args.entry = "morph_point" /\ pc = "morphed") =>
        LET p == args.p
            ui == Inv(args.urst[1], p)
            x1 == G[1] - args.urst[2]
        IN /\ P[1][1] = (x1 * ui * ui) % p
           /\ IF G[2] = None THEN P[1][2] = None
              ELSE P[1][2] =
                     ((G[2] - (args.urst[3] * x1 + args.urst[4])) * ui * ui * ui) % p

\* A map with s # 0 and u^2 # 1 applied to a point with x # r: the two
\* readings of the s-term differ.
C25_Witness ==
    /\ args.entry = "morph_point"
    /\ pc = "morphed"
    /\ G[2] # None
    /\ args.urst[3] # 0
    /\ (args.urst[1] * args.urst[1]) % args.p # 1
    /\ G[1] # args.urst[2]
    /\ P[1] # morph_point_STransformed(args.urst, args.p, G)

\* ------------------------------------------------ claims on isomorphisms
\* The u the claim lets isomorphisms(E, F, p) range over, for non-singular
\* curves of equal j: the roots of u^6 = c6E/c6F for j = 0 mod p, of
\* u^4 = c4E/c4F for j = 1728 mod p, of u^2 = c6E*c4F/(c6F*c4E) otherwise
\* (each stated without division; the divisor is not 0).
ClaimedRoots(Ea, Fb, p) ==
    LET j == JOf(Ea, p)
        cE == c_invariants(Ea, p)
        cF == c_invariants(Fb, p)
    IN IF j = 0
       THEN {u \in 1..(p - 1) : (Pow(u, 6) * cF[2]) % p = cE[2] % p}
       ELSE IF j = 1728 % p
       THEN {u \in 1..(p - 1) : (Pow(u, 4) * cF[1]) % p = cE[1] % p}
       ELSE {u \in 1..(p - 1) :
                (Pow(u, 2) * cF[2] * cE[1]) % p = (cE[2] * cF[1]) % p}

\* The outcome of the call is still in res.
IsomorphismsReturned ==
    /\ args.entry = "isomorphisms"
    /\ pc # "call"
    /\ "dual_isomorphism" \notin steps

\* C26: for two distinct non-singular curves of equal j-invariant
\* isomorphisms(E, F, p) returns one map for every root u of the polynomial
\* of its case (degree 6 for j = 0, 4 for j = 1728 mod p, 2 otherwise) and
\* never fails on an inversion; curves of different j give the empty list,
\* equal curves the identity alone.
C26_BranchDegrees ==
    IsomorphismsReturned =>
        IF args.E = args.F
        THEN res = Ok(<< <<1, 0, 0, 0>> >>)
        ELSE (NonSingular(args.E, args.p) /\ NonSingular(args.F, args.p)) =>
               IF JOf(args.E, args.p) # JOf(args.F, args.p)
               THEN res = Ok(<<>>)
               ELSE /\ res.exc = ""
                    /\ {res.val[i][1] : i \in 1..Len(res.val)}
                         = ClaimedRoots(args.E, args.F, args.p)

\* The same outside j = 1728 mod p, where the code takes the branch of the
\* claim.
BranchDegreesNot1728 ==
    (IsomorphismsReturned /\ args.E # args.F
     /\ NonSingular(args.E, args.p) /\ NonSingular(args.F, args.p)
     /\ JOf(args.E, args.p) # 1728 % args.p) =>
        IF JOf(args.E, args.p) # JOf(args.F, args.p)
        THEN res = Ok(<<>>)
        ELSE /\ res.exc = ""
             /\ {res.val[i][1] : i \in 1..Len(res.val)}
                  = ClaimedRoots(args.E, args.F, args.p)

\* Two distinct curves of j = 1728 mod p: the inversion of c6F*c4E = 0 fails.
Branch1728Fails ==
    (IsomorphismsReturned /\ args.E # args.F
     /\ NonSingular(args.E, args.p) /\ NonSingular(args.F, args.p)
     /\ JOf(args.E, args.p) = 1728 % args.p
     /\ JOf(args.F, args.p) = 1728 % args.p) =>
        res = Err("ValueError")

\* ------------------------------------------------------ claims on lift_x
\* The y-coordinates at x = args.X[1] modulo the i-th modulus.
ValidYs(i) ==
    {y \in 0..(args.ps[i] - 1) :
        curve_contains_point(args.a_invs, args.ps[i], <<args.X[1], y>>)}

\* The points (x, y), y below the product of the moduli, that lie on the
\* curve modulo every modulus: by the CRT, one per choice of a valid y for
\* each modulus.
CombinedPoints ==
    {<<args.X[1], y>> : y \in {yy \in 0..(prod(args.ps) - 1) :
        \A i \in 1..Len(args.ps) :
            curve_contains_point(args.a_invs, args.ps[i], <<args.X[1], yy>>)}}

LiftExact ==
    /\ res.exc = ""
    /\ res.val = CombinedPoints
    /\ Cardinality(res.val)
         = prod([i \in 1..Len(args.ps) |-> Cardinality(ValidYs(i))])
    /\ (\E i \in 1..Len(args.ps) : ValidYs(i) = {}) => res.val = {}

\* C27 as stated: lift_x returns exactly the points (x, y), y the CRT
\* combination of one valid y per modulus: as many as the product of the
\* per-modulus counts, none when one modulus has no valid y, each on the
\* curve modulo every modulus.
C27_LiftExactAnyCurve ==
    (args.entry = "lift_x" /\ pc = "return") => LiftExact

\* C27 (amended): it does so when the curve is non-singular modulo every
\* modulus of ps; when it is singular modulo one of them lift_x raises
\* ArithmeticError and returns no set.
C27_LiftExactNonSingular ==
    (args.entry = "lift_x" /\ pc = "return") =>
        IF \A i \in 1..Len(args.ps) : NonSingular(args.a_invs, args.ps[i])
        THEN LiftExact
        ELSE res = Err("ArithmeticError")

\* Two moduli with two y-coordinates each: four combined points.
C27_Witness ==
    /\ args.entry = "lift_x"
    /\ pc = "return"
    /\ args.X[2] = None
    /\ Len(args.ps) = 2
    /\ res.exc = ""
    /\ Cardinality(ValidYs(1)) = 2
    /\ Cardinality(ValidYs(2)) = 2
    /\ Cardinality(res.val) = 4

\* One modulus has y-coordinates and the other has none: nothing is returned.
C27_WitnessEmpty ==
    /\ args.entry = "lift_x"
    /\ pc = "return"
    /\ Len(args.ps) = 2
    /\ res.exc = ""
    /\ ValidYs(1) # {}
    /\ ValidYs(2) = {}
    /\ res.val = {}

\* ------------------------------------- claims on the Pohlig-Hellman loop
\* Every prime factor of order(G) has at most size_limit bits.
AllWithinLimit == \A i \in 1..Len(factors) : ~TooLarge(factors[i][1])

\* P is a multiple of G.
InSubgroup == \E n \in 0..(ord_G - 1) : Mul(E, n, G) = P

\* The state part of C28.
PhLoopState ==
    ("ph" \in Started) =>
        /\ \E j \in {fi - 1, fi} \cap (0..Len(factors)) :
               mods = UsedPowers(SubSeq(factors, 1, j), args.max_bits)
        /\ Len(logs) = Len(mods) =>
               \A n \in 0..(ord_G - 1) :
                   Mul(E, n, G) = P => crt % prod(mods) = n % prod(mods)
        /\ out = "returned" => res.order = prod(mods)
        /\ AllWithinLimit =>
               /\ fallback = "none"
               /\ steps \cap {"ph_skip", "ph_lambda", "ph_partial"} = {}
               /\ (/\ pc = "done"
                   /\ InSubgroup
                   /\ \A i \in 1..Len(failures) : failures[i][2] # "KeyboardInterrupt")
                  => ReturnedInLoop

\* The step part of C28: an iteration on a factor over the limit.
PhSkipStep ==
    (/\ pc = "ph_loop"
     /\ fi <= Len(factors)
     /\ TooLarge(factors[fi][1]))
    => /\ mods' = mods
       /\ logs' = logs
       /\ crt' = crt

\* C28: in the Pohlig-Hellman loop mods holds exactly the prime powers of
\* the processed (not skipped) factors and crt is congruent to every
\* logarithm of P in base G modulo the product of mods; a skipped factor
\* leaves mods, logs and crt unchanged; every returned ResultSet has that
\* product as its order; and when no factor is over size_limit the attack
\* never reaches a fallback: for P a multiple of G it returns from the loop.
C28_PhLoopInvariant == []PhLoopState /\ [][PhSkipStep]_vars

\* Returned at the last of two factors, both within the limit.
C28_Witness ==
    /\ ReturnedInLoop
    /\ AllWithinLimit
    /\ Len(factors) = 2
    /\ Len(mods) = 2
    /\ res.order = ord_G
    /\ crt > 1

\* A skipped factor, and the partial result returned with the product of
\* the processed prime powers as its order.
C28_WitnessSkipped ==
    /\ "ph_skip" \in steps
    /\ out = "returned"
    /\ fallback = "partial"
    /\ Len(mods) = 1
    /\ res.order = mods[1]
    /\ res.order < ord_G
    /\ crt > 0

\* --------------------------------------------- claims on the two gates
\* #E(Fp) == p.
Anomalous == CurveOrder(E) = args.p

\* C29: the gates of mov_attack and smart_attack are mutually exclusive: on
\* an anomalous curve embedding_degree returns -1 for every max_k (evaluated
\* where mov_attack is called) and mov_attack fails with NotSupersingular,
\* so no run passes both gates, and on a curve smart_attack accepts
\* do_attacks reaches it after exactly one failed attack, the MOV attempt.
C29_GatesExclusive ==
    \A n \in {CurveOrder(E)} :
    /\ Discriminant(E) # 0 =>
         \/ SmartGateFails(n, args.p)
         \/ MovGateFails(embedding_degree(E, MAX_DEGREE))
    /\ (pc = "try_mov" /\ Discriminant(E) # 0 /\ n = args.p) =>
         \A max_k \in 1..MAX_DEGREE : embedding_degree(E, max_k) = -1
    /\ ~(steps \cap MovSteps # {} /\ steps \cap SmartSteps # {})
    /\ ("mov" \in Started /\ n = args.p) =>
         /\ k = -1
         /\ failures # <<>>
         /\ failures[1] = <<"mov", "NotSupersingular">>
         /\ steps \cap MovSteps = {}
         /\ args.entry = "do_attacks" =>
              \/ pc = "try_smart" /\ started = <<"mov">> /\ Len(failures) = 1
              \/ /\ Len(started) >= 2
                 /\ started[2] = "smart"
                 /\ Len(failures) >= 2 => failures[2][1] = "smart"
    /\ steps \cap SmartSteps # {} =>
         /\ n = args.p
         /\ args.entry = "do_attacks" => SubSeq(started, 1, 2) = <<"mov", "smart">>

\* Smart's lifting is under way on an anomalous curve after the MOV gate
\* refused it.
C29_Witness ==
    /\ args.entry = "do_attacks"
    /\ Anomalous
    /\ started = <<"mov", "smart">>
    /\ failures = << <<"mov", "NotSupersingular">> >>
    /\ k = -1
    /\ "smart_hensel" \in steps

\* The MOV gate passes on a curve that is not anomalous.
C29_WitnessMov ==
    /\ args.entry = "do_attacks"
    /\ "mov_pairing" \in steps
    /\ ~Anomalous
    /\ SmartGateFails(CurveOrder(E), args.p)

\* ------------------------------------- claims on the discriminant gate
\* The discriminant of x^3 + a*x^2 + b*x + c modulo p.
CubicDiscriminant(cv) ==
    (cv.a2 * cv.a2 * cv.a4 * cv.a4 - 4 * cv.a4 * cv.a4 * cv.a4
       - 4 * cv.a2 * cv.a2 * cv.a2 * cv.a6 - 27 * cv.a6 * cv.a6
       + 18 * cv.a2 * cv.a4 * cv.a6) % cv.p

\* C30: a cubic x^3 + a*x^2 + b*x + c over GF(p), p > 3, of discriminant 0
\* has a root in GF(p) of multiplicity 2 or 3; do_attacks starts
\* singular_attack on discriminant 0 only, and a singular_attack started on
\* discriminant 0 never fails with NoRoots, NoMultipleRoot or
\* UnsupportedMultiplicity and takes a multiplicity in {2, 3}.
C30_DiscriminantZeroRoots ==
    /\ CubicDiscriminant(E) = 0 => MaxMultiplicity(E) \in {2, 3}
    /\ (args.entry = "do_attacks" /\ "singular" \in Started) =>
          CubicDiscriminant(E) = 0
    /\ ("singular" \in Started /\ CubicDiscriminant(E) = 0) =>
          /\ FailureKinds \cap
                {"NoRoots", "NoMultipleRoot", "UnsupportedMultiplicity"} = {}
          /\ "sing_roots" \in steps =>
                /\ sing.mult \in {2, 3}
                /\ PowerDivides(E, sing.root, sing.mult)

\* do_attacks on a nodal curve modulo 7: the double root is taken.
C30_Witness ==
    /\ args.entry = "do_attacks"
    /\ args.p = 7
    /\ CubicDiscriminant(E) = 0
    /\ "sing_roots" \in steps
    /\ sing.mult = 2
    /\ args.a4 # 0

\* A direct call on a cuspidal cubic with a2 # 0.
C30_WitnessCusp ==
    /\ args.entry = "singular_attack"
    /\ args.a2 # 0
    /\ CubicDiscriminant(E) = 0
    /\ "sing_roots" \in steps
    /\ sing.mult = 3

\* A direct call on a cubic of discriminant # 0: there the failure is reached.
C30_WitnessNonZero ==
    /\ args.entry = "singular_attack"
    /\ CubicDiscriminant(E) # 0
    /\ FailureKinds \cap {"NoRoots", "NoMultipleRoot"} # {}

====
